---- MODULE Spec2Model ----
(***************************************************************************)
(* Snapshot cache engine of the ephemeris API (server/src/cache/           *)
(* ephemerisCache.ts) and the planets route that surfaces it               *)
(* (server/src/routes/ephemeris.ts).                                       *)
(*                                                                         *)
(* Execution model.  Node runs one macrotask at a time and drains the      *)
(* microtask queue after it, so the code between two real I/O suspensions  *)
(* (provider HTTP response, Redis reply, Redis connect, timer, incoming    *)
(* request) is atomic.  Every action below is one such macrotask with its  *)
(* whole microtask drain: a settling refresh wakes all its waiters in the  *)
(* same action.  An await that only costs microtask turns (getRedisClient  *)
(* once the connection attempt has settled, an async return) is not a      *)
(* suspension point.                                                       *)
(***************************************************************************)
EXTENDS Integers, Sequences, FiniteSets, TLC

\* ------------------------------------------------------------------ bounds
NCallers == 2       \* concurrent HTTP clients
MaxCalls == 2       \* requests received in one run
MaxCallsStale == 3  \* requests received in one run of the stale-store scenario
MaxRefresh == 3     \* refreshSnapshot executions in one run
MaxTime == 2        \* last value of the wall clock
NBodies == 2        \* catalog entries fetched per fan-out (prefix of PLANETS)

\* --------------------------------------------------------------- constants
\* The environment of the run modelled: CACHE_TTL_MS=1 CACHE_STALE_MS=1
\* CACHE_WARM_INTERVAL_MS=1 (Unset stands for a variable that is not set).
Unset == -1
EnvCacheTtlMs == 1
EnvCacheStaleMs == 1
EnvCacheWarmIntervalMs == 1

Max(a, b) == IF a >= b THEN a ELSE b
CACHE_TTL_MS == IF EnvCacheTtlMs # Unset THEN EnvCacheTtlMs ELSE 120000
STALE_WHILE_REVALIDATE_MS ==
  IF EnvCacheStaleMs # Unset THEN EnvCacheStaleMs ELSE CACHE_TTL_MS \div 2
PREWARM_INTERVAL_MS ==
  IF EnvCacheWarmIntervalMs # Unset THEN EnvCacheWarmIntervalMs
  ELSE IF CACHE_TTL_MS > 0 THEN Max(30000, (CACHE_TTL_MS * 8) \div 10) ELSE 0

PLANETS == << "mercury", "venus", "earth", "mars", "jupiter",
              "saturn", "uranus", "neptune", "pluto" >>
Catalog == SubSeq(PLANETS, 1, NBodies)

Callers == 1 .. NCallers
RefreshIds == 1 .. MaxRefresh

\* ------------------------------------------------------------- null values
Null == [null |-> TRUE]            \* null / undefined object
NoId == 0                          \* correlationId undefined
NoHandle == 0                      \* inflightPromise === null

VARIABLES
  clock,            \* Date.now()
  providerUp,       \* whether the upstream answers fetches successfully
  redis,            \* redisReady: "none" | "connecting" | "ready" | "failed"
  redisStore,       \* value of CACHE_KEY in the shared store, with its expiry
  redisQueue,       \* commands sent on the Redis connection and not yet answered
  memoryCache,      \* memoryCache: CacheRecord | null
  memoryOwner,      \* refresh whose payload object memoryCache.payload is (0: none)
  inflightPromise,  \* inflightPromise: id of the refresh it belongs to, or NoHandle
  refreshes,        \* refreshSnapshot executions, by id
  nRefresh,         \* executions started so far
  providerCalls,    \* fetchPlanetStateVector invocations so far
  callers,          \* getSnapshot calls, one slot per client
  out,              \* HTTP responses sent by the current step, by client
  served,           \* greatest cachedAt served in any response so far (-1: none)
  callsLeft,        \* requests that may still arrive in this run
  horizons,         \* one fetchPlanetStateVector call: axios' outcome, then the result
  metrics,          \* calls on the prom-client metrics made by the current step
  unhandled         \* refreshes whose rejection the current step left unhandled

vars == << clock, providerUp, redis, redisStore, redisQueue, memoryCache, memoryOwner,
           inflightPromise, refreshes, nRefresh, providerCalls, callers, out,
           served, callsLeft, horizons, metrics, unhandled >>

\* ------------------------------------------------------------ HTTP request
Undef == [t |-> "undef"]
Str(s) == [t |-> "str", v |-> s]
Arr(a) == [t |-> "arr", v |-> a]
QueryValues == { Undef, Str("0"), Arr(<< "0", "true" >>) }
HeaderValues == { Undef, Str("1") }

IsOn(s) == s = "1" \/ s = "true"

\* refreshParam.find((v) => v === '1' || v === 'true')
FindOn(a) ==
  IF \E i \in 1 .. Len(a) : IsOn(a[i])
    THEN Str(a[CHOOSE i \in 1 .. Len(a) :
                 IsOn(a[i]) /\ \A j \in 1 .. (i - 1) : ~IsOn(a[j])])
    ELSE Undef

\* handleSnapshotRequest: the forced-refresh signal of a request
ForceRefresh(refreshParam, refreshHeaderRaw) ==
  LET refreshParamValue ==
        IF refreshParam.t = "str" THEN refreshParam
        ELSE IF refreshParam.t = "arr" THEN FindOn(refreshParam.v)
        ELSE Undef
      refreshHeader ==
        IF refreshHeaderRaw.t = "arr"
          THEN (IF Len(refreshHeaderRaw.v) > 0
                  THEN Str(refreshHeaderRaw.v[1]) ELSE Undef)
          ELSE refreshHeaderRaw
  IN  \/ refreshParamValue = Str("1")
      \/ refreshParamValue = Str("true")
      \/ refreshHeader = Str("1")
      \/ refreshHeader = Str("true")

\* ------------------------------------------------------------------ data
\* The state vector the provider returns to fan-out k for catalog entry i.
\* Responses are uninterpreted: each carries the identity of its fan-out.
StateVector(k, i) == [name |-> Catalog[i], x_au |-> k, timestamp |-> k]

\* Date.now() - started as fan-out k measures it (uninterpreted as well)
Latency(k) == k

Has(m, f) == f \in DOMAIN m

\* buildPlanetSnapshot, after Promise.all resolved with `results`
BuildSnapshot(results, latencyMs) ==
  [ timestamp |-> results[1].timestamp,
    metadata |-> [ source |-> "NASA-JPL-Horizons",
                   distanceUnit |-> "AU",
                   responseTimeMs |-> latencyMs ],
    bodies |-> [ i \in 1 .. Len(results) |->
                   [ name |-> results[i].name, x_au |-> results[i].x_au ] ] ]

\* refreshSnapshot: the CacheRecord built at `now`
MakeRecord(payload, now) ==
  [ payload |-> payload,
    cachedAt |-> now,
    expiresAt |-> now + CACHE_TTL_MS,
    staleUntil |-> now + CACHE_TTL_MS + STALE_WHILE_REVALIDATE_MS ]

\* refreshSnapshot: payload.metadata = { ...payload.metadata, cacheStatus: 'MISS', ... }
MissMetadata(metadata, backend, now, correlationId) ==
  [ cacheStatus |-> "MISS",
    cacheBackend |-> backend,
    cacheAgeMs |-> 0,
    cacheExpiresInMs |-> CACHE_TTL_MS,
    cacheStale |-> FALSE,
    generatedAt |-> now,
    requestId |-> correlationId ] @@ metadata

\* Fault: the decoration never marks a payload stale
DecorateNeverStale(payload, cacheState, backend, cacheAgeMs, correlationId) ==
  [ payload EXCEPT
      !.metadata = [ cacheStatus |-> cacheState,
                     cacheBackend |-> backend,
                     cacheAgeMs |-> cacheAgeMs,
                     cacheExpiresInMs |-> Max(0, CACHE_TTL_MS - cacheAgeMs),
                     cacheStale |-> FALSE,
                     requestId |-> correlationId,
                     generatedAt |-> clock - cacheAgeMs ] @@ @ ]

\* Fault: the decoration stamps the correlation id on the snapshot itself
DecorateStampingSnapshot(payload, cacheState, backend, cacheAgeMs, correlationId) ==
  [ payload EXCEPT
      !.timestamp = IF correlationId # NoId THEN correlationId ELSE @,
      !.metadata = [ cacheStatus |-> cacheState,
                     cacheBackend |-> backend,
                     cacheAgeMs |-> cacheAgeMs,
                     requestId |-> correlationId ] @@ @ ]

\* decoratePayloadMetadata: a new payload object, the stored one untouched
decoratePayloadMetadata(payload, cacheState, backend, cacheAgeMs, correlationId) ==
  LET baseMetadata == payload.metadata
  IN  [ payload EXCEPT !.metadata =
          [ cacheStatus |-> cacheState,
            cacheBackend |-> backend,
            cacheAgeMs |-> cacheAgeMs,
            cacheExpiresInMs |-> Max(0, CACHE_TTL_MS - cacheAgeMs),
            cacheStale |-> (cacheState = "STALE"),
            requestId |->
              IF correlationId # NoId THEN correlationId
              ELSE IF Has(baseMetadata, "requestId") THEN baseMetadata.requestId
              ELSE NoId,
            generatedAt |->
              IF Has(baseMetadata, "generatedAt") THEN baseMetadata.generatedAt
              ELSE clock - cacheAgeMs ] @@ baseMetadata ]

\* Fault: the catch branch marks the payload frozen but leaves the expiry
\* fields as decoratePayloadMetadata computed them
FrozenMetadataKeepsExpiry(metadata, message, correlationId) ==
  [ frozenSnapshot |-> TRUE,
    freezeReason |-> message,
    requestId |-> correlationId ] @@ metadata

\* getSnapshot, catch branch: payload.metadata = { ...payload.metadata, frozen fields }
FrozenMetadata(metadata, message, correlationId) ==
  [ cacheStale |-> TRUE,
    cacheExpiresInMs |-> 0,
    frozenSnapshot |-> TRUE,
    freezeReason |-> message,
    requestId |-> correlationId ] @@ metadata

\* Fault: the freshness test written with <= (a record of age TTL still fresh)
IsFreshInclusive(cacheAgeMs) == cacheAgeMs <= CACHE_TTL_MS

\* getSnapshot: const isFresh = cacheAgeMs < CACHE_TTL_MS
isFresh(cacheAgeMs) == cacheAgeMs < CACHE_TTL_MS
\* getSnapshot: const isStaleButAllowed = !isFresh && cacheAgeMs < TTL + STALE
isStaleButAllowed(cacheAgeMs) ==
  ~isFresh(cacheAgeMs) /\ cacheAgeMs < CACHE_TTL_MS + STALE_WHILE_REVALIDATE_MS

\* (await getRedisClient()) ? 'redis' : 'memory', once the connection settled
Backend(s) == IF s.redis = "ready" THEN "redis" ELSE "memory"
\* Fault: a client object is handed out whenever REDIS_URL was set, even after
\* the connection attempt failed
HasClientOnceConfigured(s) == s.redis # "none"

\* getRedisClient() resolves to a client
HasClient(s) == s.redis = "ready"

\* JSON.stringify drops the keys whose value is undefined
DropUndefined(metadata) ==
  [ f \in { g \in DOMAIN metadata : ~(g = "requestId" /\ metadata[g] = NoId) }
      |-> metadata[f] ]

\* JSON.parse(JSON.stringify(record)): a new object holding the record's value
\* at the time of the write
JsonRoundTrip(record) ==
  [ record EXCEPT !.payload.metadata = DropUndefined(record.payload.metadata) ]

\* An Error raised by the fan-out of refresh k (err.message)
FetchError(k) == [message |-> k]

\* ------------------------------------------------------------- metrics.ts
\* A call on one of the registry's metrics
Inc(metric, backend, label) ==
  [ metric |-> metric, op |-> "inc", backend |-> backend, label |-> label,
    value |-> 1 ]
SetGauge(metric, backend, value) ==
  [ metric |-> metric, op |-> "set", backend |-> backend, label |-> "",
    value |-> value ]
Observe(metric, value) ==
  [ metric |-> metric, op |-> "observe", backend |-> "", label |-> "",
    value |-> value ]

\* cacheHits.inc({ backend, state }); cacheAgeGauge.set({ backend }, ageMs)
recordCacheHit(s, backend, state, ageMs) ==
  [ s EXCEPT !.metrics =
      @ \o << Inc("horizons_cache_hits_total", backend, state),
              SetGauge("horizons_cache_age_ms", backend, ageMs) >> ]

\* if (Number.isFinite(latencyMs)) horizonsLatency.observe(latencyMs)
recordHorizonsLatency(s, latencyMs) ==
  IF latencyMs \in Int
    THEN [ s EXCEPT !.metrics =
             Append(@, Observe("horizons_fetch_duration_ms", latencyMs)) ]
    ELSE s

\* cacheMisses.inc({ backend, reason }); if (latencyMs !== undefined &&
\* Number.isFinite(latencyMs)) horizonsLatency.observe(latencyMs)
recordCacheMiss(s, backend, reason, latencyMs) ==
  LET s1 == [ s EXCEPT !.metrics =
                Append(@, Inc("horizons_cache_misses_total", backend, reason)) ]
  IN  IF latencyMs \in Int
        THEN [ s1 EXCEPT !.metrics =
                 Append(@, Observe("horizons_fetch_duration_ms", latencyMs)) ]
        ELSE s1

\* A stored text JSON.parse rejects
InvalidJson == [ invalid |-> TRUE ]

\* The TypeError of reading `.metadata` of an undefined payload
TypeError == [ name |-> "TypeError" ]

\* ----------------------------------------------------------- process state
NoOut == [c \in Callers |-> Null]

IdleCaller ==
  [ pc |-> "idle", forceRefresh |-> FALSE, now |-> 0, awaiting |-> NoHandle,
    raw |-> Null, err |-> Null ]

UnusedRefresh ==
  [ st |-> "unused", reason |-> "", correlationId |-> NoId,
    withFinally |-> FALSE, pending |-> {}, record |-> Null,
    err |-> Null ]

\* The correlation id client c's call of getSnapshot is made with
RequestId(c) == c

\* The engine state a macrotask starts from; the responses of the previous
\* macrotask are gone.
Cur ==
  [ ok |-> TRUE,
    redis |-> redis,
    redisStore |-> redisStore,
    redisQueue |-> redisQueue,
    memoryCache |-> memoryCache,
    memoryOwner |-> memoryOwner,
    inflightPromise |-> inflightPromise,
    refreshes |-> refreshes,
    nRefresh |-> nRefresh,
    providerCalls |-> providerCalls,
    callers |-> callers,
    out |-> NoOut,
    served |-> served,
    metrics |-> << >>,
    unhandled |-> {} ]

\* The engine state a macrotask leaves behind
Commit(s) ==
  /\ s.ok
  /\ redis' = s.redis
  /\ redisStore' = s.redisStore
  /\ redisQueue' = s.redisQueue
  /\ memoryCache' = s.memoryCache
  /\ memoryOwner' = s.memoryOwner
  /\ inflightPromise' = s.inflightPromise
  /\ refreshes' = s.refreshes
  /\ nRefresh' = s.nRefresh
  /\ providerCalls' = s.providerCalls
  /\ callers' = s.callers
  /\ out' = s.out
  /\ served' = s.served
  /\ horizons' = horizons
  /\ metrics' = s.metrics
  /\ unhandled' = s.unhandled

\* The client pipelines its commands on one connection: the store executes
\* them in the order sent, and the replies settle the commands' promises in
\* that order.  A command takes effect when it is sent; its reply is a later
\* macrotask.
Get(c) == [op |-> "get", who |-> c]
Set(k) == [op |-> "set", who |-> k]
IsNext(queue, command) == queue # << >> /\ Head(queue) = command

\* client.get(CACHE_KEY) as the store answers it: the key is gone once its PX
\* time to live has elapsed
RedisGet(store) ==
  IF store # Null /\ clock < store.expireAt THEN store.rec ELSE Null

\* Fault: the key is written with the TTL alone, without the stale window
RedisSetTtlOnly(record) ==
  [ rec |-> JsonRoundTrip(record),
    expireAt |-> clock + (record.expiresAt - record.cachedAt) ]

\* client.set(CACHE_KEY, JSON.stringify(record), { PX: staleUntil - cachedAt })
RedisSet(record) ==
  [ rec |-> JsonRoundTrip(record),
    expireAt |-> clock + (record.staleUntil - record.cachedAt) ]

\* -------------------------------------------------------- refreshSnapshot
\* refreshSnapshot(reason, correlationId) is called and its promise (with the
\* .finally that clears the handle, for the background reasons) is stored in
\* inflightPromise.  It runs to its first suspension: the connection attempt,
\* or the provider responses of the fan-out.
StartFanOut(r) ==
  [ r EXCEPT !.st = "fetching", !.pending = 1 .. NBodies ]

SpawnRefresh(s, reason, correlationId, withFinally) ==
  LET k == s.nRefresh + 1
      r == [ UnusedRefresh EXCEPT !.reason = reason,
                                  !.correlationId = correlationId,
                                  !.withFinally = withFinally ]
  IN  IF k > MaxRefresh THEN [ s EXCEPT !.ok = FALSE ]
      ELSE [ s EXCEPT
               !.nRefresh = k,
               !.inflightPromise = k,
               !.refreshes[k] =
                 IF s.redis = "connecting" THEN [ r EXCEPT !.st = "L178" ]
                 ELSE StartFanOut(r),
               !.providerCalls =
                 IF s.redis = "connecting" THEN @ ELSE @ + NBodies ]

\* ------------------------------------------------- handleSnapshotRequest
\* res.json(payload) with the cache-state headers
Respond200(s, c, result, cachedAt) ==
  [ s EXCEPT
      !.callers[c] = IdleCaller,
      !.served = Max(@, cachedAt),
      !.out[c] =
        [ status |-> 200,
          cacheState |-> result.cacheState,
          cacheBackend |-> result.cacheBackend,
          cacheAgeMs |-> result.cacheAgeMs,
          payload |-> result.payload,
          staleHeader |-> (result.cacheState = "STALE"
                             \/ result.cacheState = "FROZEN"),
          frozenHeader |-> (Has(result.payload.metadata, "frozenSnapshot")
                              /\ result.payload.metadata.frozenSnapshot),
          forceRefresh |-> s.callers[c].forceRefresh,
          awaited |-> s.callers[c].awaiting,
          floor |-> s.served,
          cachedAt |-> cachedAt ] ]

\* res.status(500).json({ error })
Respond500(s, c, err) ==
  [ s EXCEPT
      !.callers[c] = IdleCaller,
      !.out[c] =
        [ status |-> 500,
          error |-> "Erreur lors de la recuperation des ephemerides",
          cause |-> err,
          forceRefresh |-> s.callers[c].forceRefresh,
          awaited |-> s.callers[c].awaiting ] ]

\* A settled refresh nobody can reach any more
Settled == [ UnusedRefresh EXCEPT !.st = "settled" ]

\* getSnapshot: finally { inflightPromise = null }.  A rejected promise is
\* kept only as long as the handle leads to it.
ClearHandle(s) ==
  LET k == s.inflightPromise
  IN  IF k # NoHandle /\ s.refreshes[k].st = "rejected"
        THEN [ s EXCEPT !.inflightPromise = NoHandle, !.refreshes[k] = Settled ]
        ELSE [ s EXCEPT !.inflightPromise = NoHandle ]

\* -------------------------------------------------------------- getSnapshot
\* try branch: the awaited refresh resolved with `result`
ReturnMiss(s, c, result, cachedAt) ==
  LET correlationId ==
        IF RequestId(c) # NoId THEN RequestId(c)
        ELSE result.payload.metadata.requestId
      payload ==
        decoratePayloadMetadata(result.payload, result.cacheState,
                                result.cacheBackend, result.cacheAgeMs,
                                correlationId)
  IN  ClearHandle(Respond200(s, c, [ result EXCEPT !.payload = payload ],
                             cachedAt))

\* Fault: the catch branch serves the record under the state STALE
ReturnFrozenAsStale(s, c, cached, err) ==
  LET cacheAgeMs == s.callers[c].now - cached.cachedAt
      payload ==
        decoratePayloadMetadata(cached.payload, "STALE", Backend(s), cacheAgeMs,
                                RequestId(c))
  IN  ClearHandle(Respond200(s, c,
        [ payload |-> payload, cacheState |-> "STALE",
          cacheBackend |-> Backend(s), cacheAgeMs |-> cacheAgeMs ],
        cached.cachedAt))

\* catch branch with a record at hand
ReturnFrozen(s, c, cached, err) ==
  LET cacheAgeMs == s.callers[c].now - cached.cachedAt
      decorated ==
        decoratePayloadMetadata(cached.payload, "FROZEN", Backend(s), cacheAgeMs,
                                RequestId(c))
      payload ==
        [ decorated EXCEPT !.metadata =
            FrozenMetadata(decorated.metadata, err.message, RequestId(c)) ]
  IN  IF ~Has(cached, "payload") THEN ClearHandle(Respond500(s, c, TypeError))
      ELSE
      ClearHandle(Respond200(s, c,
        [ payload |-> payload, cacheState |-> "FROZEN",
          cacheBackend |-> Backend(s), cacheAgeMs |-> cacheAgeMs ],
        cached.cachedAt))

\* catch branch without a record: throw err
Rethrow(s, c, err) == ClearHandle(Respond500(s, c, err))

\* Fault: the catch branch rethrows without looking for a record
RethrowAlways(s, c, err) == Rethrow(s, c, err)

\* catch (err) { const cached = memoryCache ?? (await readCache()); ... }
CatchBranch(s, c, err) ==
  IF s.memoryCache # Null THEN ReturnFrozen(s, c, s.memoryCache, err)
  ELSE IF HasClient(s)
    THEN [ s EXCEPT !.callers[c].pc = "catchRead",
                    !.callers[c].err = err,
                    !.callers[c].raw = RedisGet(s.redisStore),
                    !.redisQueue = Append(@, Get(c)) ]
  ELSE Rethrow(s, c, err)

\* Fault: every caller starts its own refresh, whatever the handle holds
AwaitOwnRefresh(s, c) ==
  LET s1 == SpawnRefresh(s,
              IF s.callers[c].forceRefresh THEN "manual-refresh" ELSE "miss",
              RequestId(c), FALSE)
  IN  IF ~s1.ok THEN s1
      ELSE [ s1 EXCEPT !.callers[c].pc = "await",
                       !.callers[c].awaiting = s1.inflightPromise ]

\* if (!inflightPromise) { inflightPromise = refreshSnapshot(...) }
\* try { const result = await inflightPromise; ...
AwaitInflight(s, c) ==
  LET s1 == IF s.inflightPromise = NoHandle
              THEN SpawnRefresh(s,
                     IF s.callers[c].forceRefresh THEN "manual-refresh"
                     ELSE "miss",
                     RequestId(c), FALSE)
              ELSE s
      k == s1.inflightPromise
  IN  IF ~s1.ok THEN s1
      ELSE IF s1.refreshes[k].st = "rejected"
        THEN CatchBranch([ s1 EXCEPT !.callers[c].awaiting = k ], c,
                         s1.refreshes[k].err)
      ELSE [ s1 EXCEPT !.callers[c].pc = "await", !.callers[c].awaiting = k ]

\* if (cached) { ... if (isFresh || isStaleButAllowed) { ... return } }
\* A parsed value without cachedAt has the age NaN, neither fresh nor stale;
\* decorating one without payload throws
Classify(s, c, cached) ==
  LET cacheAgeMs == s.callers[c].now - cached.cachedAt
      cacheState == IF isFresh(cacheAgeMs) THEN "HIT" ELSE "STALE"
      s0 == recordCacheHit(s, Backend(s),
                           IF isFresh(cacheAgeMs) THEN "fresh" ELSE "stale",
                           cacheAgeMs)
      s1 == IF isStaleButAllowed(cacheAgeMs) /\ s.inflightPromise = NoHandle
              THEN SpawnRefresh(s0, "stale-revalidate", NoId, TRUE)
              ELSE s0
  IN  IF cached # Null /\ ~Has(cached, "cachedAt") THEN AwaitInflight(s, c)
      ELSE IF cached # Null /\ (isFresh(cacheAgeMs) \/ isStaleButAllowed(cacheAgeMs))
        THEN IF ~Has(cached, "payload") THEN Respond500(s1, c, TypeError) ELSE
             Respond200(s1, c,
               [ payload |->
                   decoratePayloadMetadata(cached.payload, cacheState, Backend(s),
                                           cacheAgeMs, RequestId(c)),
                 cacheState |-> cacheState,
                 cacheBackend |-> Backend(s),
                 cacheAgeMs |-> cacheAgeMs ],
               cached.cachedAt)
        ELSE AwaitInflight(s, c)

\* Fault: the value read from the store is returned but not mirrored
MirrorNothing(s, raw, failed) == [ s EXCEPT !.redisQueue = Tail(@) ]

\* readCache, after client.get answered: mirror a value into memoryCache,
\* else (nothing stored, or the read threw) fall back to memoryCache
Mirror(s, raw, failed) ==
  IF ~failed /\ raw # Null
    THEN [ s EXCEPT !.memoryCache = raw, !.memoryOwner = 0,
                    !.redisQueue = Tail(@) ]
    ELSE [ s EXCEPT !.redisQueue = Tail(@) ]

\* Fault: the forced-refresh option is ignored and the cache is read first
EnterThroughCache(s, c) ==
  LET s1 == [ s EXCEPT !.callers[c].now = clock ]
  IN  IF HasClient(s)
        THEN [ s1 EXCEPT !.callers[c].pc = "read",
                         !.callers[c].raw = RedisGet(s1.redisStore),
                         !.redisQueue = Append(@, Get(c)) ]
        ELSE Classify(s1, c, s1.memoryCache)

\* getSnapshot from const now = Date.now() to its first suspension
Enter(s, c) ==
  LET s1 == [ s EXCEPT !.callers[c].now = clock ]
  IN  IF s1.callers[c].forceRefresh THEN AwaitInflight(s1, c)
      ELSE IF HasClient(s)
        THEN [ s1 EXCEPT !.callers[c].pc = "read",
                         !.callers[c].raw = RedisGet(s1.redisStore),
                         !.redisQueue = Append(@, Get(c)) ]
      ELSE Classify(s1, c, s1.memoryCache)

\* ------------------------------------------------- settling of a refresh
Waiters(s, k) ==
  { c \in Callers : s.callers[c].pc = "await" /\ s.callers[c].awaiting = k }

\* Fault: the resolution is delivered to one of the awaiting callers only
WakeOnlyOne(s, waiting, result, cachedAt) ==
  IF waiting = {} THEN s
  ELSE ReturnMiss(s, CHOOSE x \in waiting : TRUE, result, cachedAt)

RECURSIVE WakeResolved(_, _, _, _)
WakeResolved(s, waiting, result, cachedAt) ==
  IF waiting = {} THEN s
  ELSE LET c == CHOOSE x \in waiting : TRUE
       IN  WakeResolved(ReturnMiss(s, c, result, cachedAt), waiting \ {c},
                        result, cachedAt)

RECURSIVE WakeRejected(_, _, _)
WakeRejected(s, waiting, err) ==
  IF waiting = {} THEN s
  ELSE LET c == CHOOSE x \in waiting : TRUE
       IN  WakeRejected(CatchBranch(s, c, err), waiting \ {c}, err)

\* .finally(() => { inflightPromise = null }) of a background refresh
FinallyClear(s, withFinally) ==
  IF withFinally THEN ClearHandle(s) ELSE s

\* refreshSnapshot after writeCache: recordCacheMiss, the MISS metadata written
\* into the payload object (which the stored record shares), the result; then
\* the promise resolves and every caller awaiting it goes on
ResolveRefresh(s, k) ==
  LET r == s.refreshes[k]
      record == r.record
      metadata == MissMetadata(record.payload.metadata, Backend(s),
                               record.cachedAt, r.correlationId)
      payload == [ record.payload EXCEPT !.metadata = metadata ]
      result == [ payload |-> payload, cacheState |-> "MISS",
                  cacheBackend |-> Backend(s), cacheAgeMs |-> 0 ]
      s0 == recordCacheMiss(s, Backend(s), r.reason,
                            record.payload.metadata.responseTimeMs)
      s1 == [ s0 EXCEPT
                !.memoryCache =
                  IF s.memoryOwner = k THEN [ @ EXCEPT !.payload = payload ]
                  ELSE @,
                !.refreshes[k] = Settled ]
  IN  WakeResolved(FinallyClear(s1, r.withFinally), Waiters(s, k), result,
                   record.cachedAt)

\* Fault: a failing refresh stores what the fan-out had fetched so far
RejectRefreshPersisting(s, k, err) ==
  LET fetched == { i \in 1 .. NBodies : i \notin s.refreshes[k].pending }
      results == [ i \in 1 .. Cardinality(fetched) |-> StateVector(k, i) ]
      partial == MakeRecord([ timestamp |-> k,
                              metadata |-> [ source |-> "NASA-JPL-Horizons" ],
                              bodies |-> [ i \in DOMAIN results |->
                                             [ name |-> results[i].name,
                                               x_au |-> results[i].x_au ] ] ],
                            clock)
      s1 == [ s EXCEPT !.memoryCache = partial,
                       !.memoryOwner = k,
                       !.refreshes[k] = Settled,
                       !.unhandled =
                         IF Waiters(s, k) = {} THEN @ \cup {k} ELSE @ ]
  IN  WakeRejected(FinallyClear(s1, s.refreshes[k].withFinally), Waiters(s, k),
                   err)

\* the fan-out's Promise.all rejected with err: refreshSnapshot rejects, nothing
\* is written, and every caller awaiting the promise enters its catch branch.
\* The promise in the handle (for a background refresh, the one .finally
\* returned) rejects with err too; with no caller awaiting it nothing handles
\* that rejection
RejectRefresh(s, k, err) ==
  LET s1 == [ s EXCEPT
                !.refreshes[k] =
                  IF s.inflightPromise = k
                    THEN [ UnusedRefresh EXCEPT !.st = "rejected", !.err = err ]
                    ELSE Settled,
                !.unhandled =
                  IF Waiters(s, k) = {} THEN @ \cup {k} ELSE @ ]
  IN  WakeRejected(FinallyClear(s1, s.refreshes[k].withFinally), Waiters(s, k),
                   err)

\* Fault: results collected in the order the fetches complete (the last fetch
\* to complete is the one still pending) instead of Promise.all's input order
CompleteFanOutInArrivalOrder(s, k, applied) ==
  LET r == s.refreshes[k]
      last == CHOOSE i \in r.pending : TRUE
      earlier == { i \in 1 .. NBodies : i # last }
      nth(n) == CHOOSE i \in earlier :
                  Cardinality({ j \in earlier : j < i }) = n - 1
      results == [ n \in 1 .. NBodies |->
                     IF n = NBodies THEN StateVector(k, last)
                                    ELSE StateVector(k, nth(n)) ]
      payload == BuildSnapshot(results, Latency(k))
      record == MakeRecord(payload, clock)
      s1 == [ recordHorizonsLatency(s, Latency(k)) EXCEPT
                !.memoryCache = record,
                !.memoryOwner = k,
                !.refreshes[k] = [ r EXCEPT !.st = "writing", !.pending = {},
                                            !.record = record ] ]
  IN  IF HasClient(s) /\ Backend(s) = "redis"
        THEN [ s1 EXCEPT !.redisStore = IF applied THEN RedisSet(record) ELSE @,
                         !.redisQueue = Append(@, Set(k)) ]
        ELSE ResolveRefresh(s1, k)

\* buildPlanetSnapshot after Promise.all resolved, then refreshSnapshot up to
\* the end of writeCache's synchronous part (memoryCache = record) and, with a
\* live client, the client.set command (applied or not by the store)
CompleteFanOut(s, k, applied) ==
  LET r == s.refreshes[k]
      results == [ i \in 1 .. NBodies |-> StateVector(k, i) ]
      payload == BuildSnapshot(results, Latency(k))
      record == MakeRecord(payload, clock)
      s1 == [ recordHorizonsLatency(s, Latency(k)) EXCEPT
                !.memoryCache = record,
                !.memoryOwner = k,
                !.refreshes[k] = [ r EXCEPT !.st = "writing", !.pending = {},
                                            !.record = record ] ]
  IN  IF HasClient(s) /\ Backend(s) = "redis"
        THEN [ s1 EXCEPT !.redisStore = IF applied THEN RedisSet(record) ELSE @,
                         !.redisQueue = Append(@, Set(k)) ]
        ELSE ResolveRefresh(s1, k)

\* ----------------------------------------------------------------- actions
Env == UNCHANGED << clock, providerUp, callsLeft >>

\* a request reaches handleSnapshotRequest, which calls getSnapshot
Request(c, refreshParam, refreshHeaderRaw) ==
  /\ callers[c].pc = "idle"
  /\ callsLeft > 0
  /\ callsLeft' = callsLeft - 1
  /\ LET s == [ Cur EXCEPT !.callers[c] =
                 [ IdleCaller EXCEPT
                     !.forceRefresh = ForceRefresh(refreshParam, refreshHeaderRaw) ] ]
     IN  IF redis = "connecting"
           THEN Commit([ s EXCEPT !.callers[c].pc = "L249" ])
           ELSE Commit(Enter(s, c))
  /\ UNCHANGED << clock, providerUp >>

Call(c) ==
  \E refreshParam \in QueryValues, refreshHeaderRaw \in HeaderValues :
    Request(c, refreshParam, refreshHeaderRaw)

\* readCache's client.get answers (or throws) and getSnapshot classifies
ReadDone(c) ==
  /\ callers[c].pc = "read"
  /\ IsNext(redisQueue, Get(c))
  /\ \E failed \in BOOLEAN :
       LET raw == callers[c].raw
           threw == failed \/ raw = InvalidJson
           s == Mirror(Cur, raw, threw)
           cached == IF ~threw /\ raw # Null THEN raw ELSE s.memoryCache
       IN  Commit(Classify(s, c, cached))
  /\ Env

\* the catch branch's readCache answers (or throws)
CatchReadDone(c) ==
  /\ callers[c].pc = "catchRead"
  /\ IsNext(redisQueue, Get(c))
  /\ \E failed \in BOOLEAN :
       LET raw == callers[c].raw
           threw == failed \/ raw = InvalidJson
           s == Mirror(Cur, raw, threw)
           cached == IF ~threw /\ raw # Null THEN raw ELSE s.memoryCache
       IN  IF cached # Null
             THEN Commit(ReturnFrozen(s, c, cached, callers[c].err))
             ELSE Commit(Rethrow(s, c, callers[c].err))
  /\ Env

\* the provider answers the fetch of catalog entry i issued by refresh k
FetchDone(k, i) ==
  /\ refreshes[k].st = "fetching"
  /\ i \in refreshes[k].pending
  /\ IF ~providerUp
       THEN Commit(RejectRefresh(Cur, k, FetchError(k)))
       ELSE IF refreshes[k].pending = {i}
         THEN \E applied \in BOOLEAN : Commit(CompleteFanOut(Cur, k, applied))
       ELSE Commit([ Cur EXCEPT !.refreshes[k].pending = @ \ {i} ])
  /\ Env

\* writeCache's client.set answers (or throws, which is only logged)
WriteDone(k) ==
  /\ refreshes[k].st = "writing"
  /\ IsNext(redisQueue, Set(k))
  /\ Commit(ResolveRefresh([ Cur EXCEPT !.redisQueue = Tail(@) ], k))
  /\ Env

\* Number(process.env.X): a number, NaN (unparsable text) or Infinity
Num(n) == [ kind |-> "number", value |-> n ]
NaN == [ kind |-> "NaN" ]
Infinity == [ kind |-> "Infinity" ]
\* x > 0 and Number.isFinite(x) on such values
GreaterThanZero(x) ==
  x.kind = "Infinity" \/ (x.kind = "number" /\ x.value > 0)
IsFinite(x) == x.kind = "number"

\* if (CACHE_TTL_MS > 0 && PREWARM_INTERVAL_MS > 0 &&
\*     Number.isFinite(PREWARM_INTERVAL_MS)) { setInterval(...) }
TickerExists(ttl, interval) ==
  GreaterThanZero(ttl) /\ GreaterThanZero(interval) /\ IsFinite(interval)

\* Fault: the tick starts a refresh whatever the handle holds
PrewarmAlways ==
  /\ TickerExists(Num(CACHE_TTL_MS), Num(PREWARM_INTERVAL_MS))
  /\ Commit(SpawnRefresh(Cur, "background-prewarm", NoId, TRUE))
  /\ Env

\* the pre-warm timer fires
Prewarm ==
  /\ TickerExists(Num(CACHE_TTL_MS), Num(PREWARM_INTERVAL_MS))
  /\ IF inflightPromise = NoHandle
       THEN Commit(SpawnRefresh(Cur, "background-prewarm", NoId, TRUE))
       ELSE Commit(Cur)
  /\ Env

\* The orders in which the continuations of the calls in `parked` can run
Orders(parked) ==
  { order \in [ 1 .. Cardinality(parked) -> parked ] :
      \A i, j \in DOMAIN order : order[i] = order[j] => i = j }

RECURSIVE EnterParked(_, _)
EnterParked(s, order) ==
  IF order = << >> \/ ~s.ok THEN s
  ELSE EnterParked(Enter(s, Head(order)), Tail(order))

\* redisClient.connect() settles: redisReady resolves to the client or to null,
\* and everything parked on await getRedisClient() goes on in the same drain,
\* the refreshes (line 178) into their fan-out and the calls (line 249) into
\* getSnapshot, in the order they arrived
RedisConnect(connected) ==
  /\ redis = "connecting"
  /\ LET s == [ Cur EXCEPT
                 !.redis = IF connected THEN "ready" ELSE "failed",
                 !.refreshes =
                   [ k \in RefreshIds |->
                       IF @[k].st = "L178" THEN StartFanOut(@[k]) ELSE @[k] ],
                 !.providerCalls =
                   @ + NBodies * Cardinality({ k \in RefreshIds :
                                                 refreshes[k].st = "L178" }) ]
         parked == { c \in Callers : callers[c].pc = "L249" }
     IN  \E order \in Orders(parked) : Commit(EnterParked(s, order))
  /\ UNCHANGED << clock, providerUp, callsLeft >>

ProviderFails ==
  /\ providerUp
  /\ providerUp' = FALSE
  /\ Commit(Cur)
  /\ UNCHANGED << clock, callsLeft >>

ProviderRecovers ==
  /\ ~providerUp
  /\ providerUp' = TRUE
  /\ Commit(Cur)
  /\ UNCHANGED << clock, callsLeft >>

Tick ==
  /\ clock < MaxTime
  /\ clock' = clock + 1
  /\ Commit(Cur)
  /\ UNCHANGED << providerUp, callsLeft >>

\* ---------------------------------------------------------- specifications
\* A record another instance of the service left in the shared store
PeerRecord ==
  MakeRecord(BuildSnapshot([ i \in 1 .. NBodies |-> StateVector(0, i) ], 0), 0)
PeerStore ==
  [ rec |-> JsonRoundTrip(PeerRecord), expireAt |-> PeerRecord.staleUntil ]

\* The process right after module load: nothing cached, nothing in flight
Fresh ==
  /\ providerUp = TRUE
  /\ redisQueue = << >>
  /\ memoryCache = Null
  /\ memoryOwner = 0
  /\ inflightPromise = NoHandle
  /\ refreshes = [ k \in RefreshIds |-> UnusedRefresh ]
  /\ nRefresh = 0
  /\ providerCalls = 0
  /\ callers = [ c \in Callers |-> IdleCaller ]
  /\ out = NoOut
  /\ served = -1
  /\ horizons = Null
  /\ metrics = << >>
  /\ unhandled = {}

\* The service starts without REDIS_URL, or with it and the connection attempt
\* under way; the shared store is empty or holds a peer's record.
Init ==
  /\ Fresh
  /\ clock = 0
  /\ redis \in { "none", "connecting" }
  /\ redisStore \in IF redis = "connecting" THEN { Null, PeerStore } ELSE { Null }
  /\ callsLeft = MaxCalls

Next ==
  \/ \E c \in Callers : Call(c)
  \/ \E c \in Callers : ReadDone(c)
  \/ \E c \in Callers : CatchReadDone(c)
  \/ \E k \in RefreshIds, i \in 1 .. NBodies : FetchDone(k, i)
  \/ \E k \in RefreshIds : WriteDone(k)
  \/ Prewarm
  \/ \E connected \in BOOLEAN : RedisConnect(connected)
  \/ ProviderFails
  \/ ProviderRecovers
  \/ Tick

Spec == Init /\ [][Next]_vars

\* --- Concurrent non-forced requests on an empty cache, provider healthy ---
\* The requests arrive while no record is cached in either tier; the pre-warm
\* timer may tick in that window too.
CacheEmpty == memoryCache = Null /\ RedisGet(redisStore) = Null

CallOnEmpty(c) == CacheEmpty /\ Request(c, Undef, Undef)

PrewarmOnEmpty == CacheEmpty /\ Prewarm

InitMiss ==
  /\ Fresh
  /\ clock = 0
  /\ redis \in { "none", "connecting" }
  /\ redisStore = Null
  /\ callsLeft = NCallers

NextMiss ==
  \/ \E c \in Callers : CallOnEmpty(c)
  \/ \E c \in Callers : ReadDone(c)
  \/ \E k \in RefreshIds, i \in 1 .. NBodies : FetchDone(k, i)
  \/ \E k \in RefreshIds : WriteDone(k)
  \/ PrewarmOnEmpty
  \/ \E connected \in BOOLEAN : RedisConnect(connected)
  \/ Tick

SpecMiss == InitMiss /\ [][NextMiss]_vars

\* --- One client issuing its requests one after the other ---
Client == CHOOSE c \in Callers : \A d \in Callers : c <= d

NextSeq ==
  \/ Call(Client)
  \/ ReadDone(Client)
  \/ CatchReadDone(Client)
  \/ \E k \in RefreshIds, i \in 1 .. NBodies : FetchDone(k, i)
  \/ \E k \in RefreshIds : WriteDone(k)
  \/ Prewarm
  \/ \E connected \in BOOLEAN : RedisConnect(connected)
  \/ ProviderFails
  \/ ProviderRecovers
  \/ Tick

SpecSeq == Init /\ [][NextSeq]_vars

\* --- A process that connected to a store holding a peer's stale record ---
InitStale ==
  /\ Fresh
  /\ clock = PeerRecord.expiresAt
  /\ redis = "ready"
  /\ redisStore = PeerStore
  /\ callsLeft = MaxCallsStale

NextStale ==
  \/ \E c \in Callers : Call(c)
  \/ \E c \in Callers : ReadDone(c)
  \/ \E c \in Callers : CatchReadDone(c)
  \/ \E k \in RefreshIds, i \in 1 .. NBodies : FetchDone(k, i)
  \/ \E k \in RefreshIds : WriteDone(k)
  \/ Prewarm
  \/ ProviderFails
  \/ ProviderRecovers
  \/ Tick

SpecStale == InitStale /\ [][NextStale]_vars

\* ------------------------------------------------------------------ claims
InProgress(k) == refreshes[k].st \in { "L178", "fetching", "writing" }
Answered(c) == out[c] # Null
Succeeded(c) == Answered(c) /\ out[c].status = 200
Rejected(c) == Answered(c) /\ out[c].status = 500

\* The in-process cache holds a record that a refresh of this process built
OwnRecord == memoryCache # Null /\ memoryCache.payload.timestamp \in RefreshIds

\* C1: across every interleaving of getSnapshot calls, stale-revalidate spawns
\* and pre-warm ticks, at most one refreshSnapshot execution (one upstream
\* fan-out) is in progress at any time.
C1_SingleFlight == Cardinality({ k \in RefreshIds : InProgress(k) }) <= 1

\* C2 (as stated): non-forced calls arriving concurrently on an empty cache,
\* with a healthy provider, cause exactly one fan-out (|PLANETS| provider
\* invocations in total) and every one of them returns MISS.
C2_EveryCallerMisses ==
  /\ nRefresh <= 1
  /\ providerCalls \in { 0, NBodies }
  /\ \A c \in Callers :
       Answered(c) =>
         /\ out[c].status = 200
         /\ providerCalls = NBodies
         /\ out[c].cacheState = "MISS"

\* C2 (amended): such calls cause exactly one fan-out (|PLANETS| provider
\* invocations in total); each returns MISS from that fan-out, except that a
\* call whose shared-store read answers after the refresh has put its record
\* in the in-process cache returns HIT with that record.
C2_OneFanOut ==
  /\ nRefresh <= 1
  /\ providerCalls \in { 0, NBodies }
  /\ \A c \in Callers :
       Answered(c) =>
         /\ out[c].status = 200
         /\ providerCalls = NBodies
         /\ out[c].payload.bodies =
              [ i \in 1 .. NBodies |->
                  [ name |-> Catalog[i], x_au |-> StateVector(nRefresh, i).x_au ] ]
         /\ \/ out[c].cacheState = "MISS" /\ out[c].awaited = nRefresh
            \/ /\ out[c].cacheState = "HIT"
               /\ out[c].awaited = NoHandle
               /\ redis = "ready"
               /\ memoryCache # Null
               /\ out[c].cachedAt = memoryCache.cachedAt

\* C2 witness: all the concurrent callers are answered MISS by the one fan-out
C2_AllJoined ==
  /\ providerCalls = NBodies
  /\ \A c \in Callers : Succeeded(c) /\ out[c].cacheState = "MISS"

\* C3: every successful getSnapshot result (HIT, STALE, MISS or FROZEN) has
\* cacheAgeMs >= 0, in every interleaving of the call with concurrent refresh
\* completions and clock advance.
C3_AgeNonNegative ==
  \A c \in Callers : Succeeded(c) => out[c].cacheAgeMs >= 0

\* The reading of `now` a call that classifies in this step works with
C4_Now(c) == IF callers[c].pc = "read" THEN callers[c].now ELSE clock

\* Client c, not forced, gets past the cache read in this step
C4_Decides(c) ==
  /\ callers[c].pc \in { "idle", "L249", "read" }
  /\ \/ out'[c] # Null /\ ~out'[c].forceRefresh
     \/ callers'[c].pc \in { "await", "catchRead" } /\ ~callers'[c].forceRefresh

\* What the claim prescribes for a call that read `cached`
C4_Outcome(c, cached) ==
  LET a == C4_Now(c) - cached.cachedAt
  IN  IF cached # Null /\ a < CACHE_TTL_MS
        THEN /\ out'[c] # Null /\ out'[c].status = 200
             /\ out'[c].cacheState = "HIT"
             /\ out'[c].cacheAgeMs = a
             /\ out'[c].awaited = NoHandle
      ELSE IF cached # Null /\ a < CACHE_TTL_MS + STALE_WHILE_REVALIDATE_MS
        THEN /\ out'[c] # Null /\ out'[c].status = 200
             /\ out'[c].cacheState = "STALE"
             /\ out'[c].cacheAgeMs = a
             /\ out'[c].awaited = NoHandle
      ELSE \/ callers'[c].pc \in { "await", "catchRead" }
           \/ out'[c] # Null /\ out'[c].awaited # NoHandle

\* C4: a non-forced getSnapshot that reads a record of age a returns HIT iff
\* a < TTL, STALE iff TTL <= a < TTL + STALE_WINDOW, and otherwise (or with no
\* record) awaits a refresh; every HIT result has cacheAgeMs < TTL and every
\* STALE result has TTL <= cacheAgeMs < TTL + STALE_WINDOW.  (The record read
\* is the store's answer or, when there is none or the read throws, the
\* in-process record.)
C4_Classification ==
  [][ \A c \in Callers :
        /\ C4_Decides(c) =>
             \/ C4_Outcome(c, memoryCache)
             \/ /\ callers[c].pc = "read"
                /\ callers[c].raw # Null
                /\ C4_Outcome(c, callers[c].raw)
        /\ (out'[c] # Null /\ out'[c].status = 200) =>
             /\ out'[c].cacheState = "HIT" => out'[c].cacheAgeMs < CACHE_TTL_MS
             /\ out'[c].cacheState = "STALE" =>
                  /\ CACHE_TTL_MS <= out'[c].cacheAgeMs
                  /\ out'[c].cacheAgeMs < CACHE_TTL_MS + STALE_WHILE_REVALIDATE_MS
    ]_vars

\* C4 witness: a record exactly TTL old is served STALE
C4_StaleAtTtl ==
  \E c \in Callers :
    /\ Succeeded(c)
    /\ ~out[c].forceRefresh
    /\ out[c].cacheState = "STALE"
    /\ out[c].cacheAgeMs = CACHE_TTL_MS

\* C5 (as stated): when the awaited refresh fails and a record exists in the
\* in-process cache or the shared store, the call returns it FROZEN; the call
\* rejects only when no record exists in either tier (the shared store being
\* a tier of the process when its client is connected).
C5_RejectsOnlyWithoutRecord ==
  \A c \in Callers :
    Rejected(c) =>
      /\ memoryCache = Null
      /\ redis = "ready" => RedisGet(redisStore) = Null

\* C5 (amended): when the awaited refresh fails and a record is in the
\* in-process cache or is returned by the catch branch's read of the shared
\* store (whatever its age), the call returns that record with cacheState
\* FROZEN, cacheStale true, cacheExpiresInMs 0, frozenSnapshot true and
\* freezeReason the error message; the call rejects only when the in-process
\* cache is empty and that read returned no record (none stored, or the read
\* failed).  A record read from the store is mirrored in the in-process cache,
\* so a rejection leaves that cache empty.
C5_FrozenFallback ==
  \A c \in Callers :
    /\ Rejected(c) =>
         /\ memoryCache = Null
         /\ out[c].awaited # NoHandle
         /\ out[c].cause = FetchError(out[c].awaited)
    /\ (Succeeded(c) /\ out[c].awaited # NoHandle /\ out[c].cacheState # "MISS") =>
         /\ out[c].cacheState = "FROZEN"
         /\ out[c].payload.metadata.cacheStatus = "FROZEN"
         /\ out[c].payload.metadata.cacheStale = TRUE
         /\ out[c].payload.metadata.cacheExpiresInMs = 0
         /\ out[c].payload.metadata.frozenSnapshot = TRUE
         /\ out[c].payload.metadata.freezeReason = FetchError(out[c].awaited).message
         /\ memoryCache # Null
         /\ out[c].payload.bodies = memoryCache.payload.bodies
         /\ out[c].cachedAt = memoryCache.cachedAt
    /\ (Succeeded(c) /\ out[c].cacheState = "FROZEN") => out[c].awaited # NoHandle

\* C5 witness: a record past staleUntil is served FROZEN after a failed refresh
C5_FrozenPastStaleUntil ==
  \E c \in Callers :
    /\ Succeeded(c)
    /\ out[c].cacheState = "FROZEN"
    /\ out[c].cacheAgeMs >= CACHE_TTL_MS + STALE_WHILE_REVALIDATE_MS

\* C6 (as stated): once the provider fails after a successful refresh, every
\* subsequent request to the planets route is answered 2xx with
\* X-Horizons-Cache: FROZEN until the provider recovers.  (A request received
\* and answered in one step, with the provider down and an own record cached.)
C6_FrozenUntilRecovery ==
  [][ \A c \in Callers :
        ( /\ callers[c].pc = "idle"
          /\ out'[c] # Null
          /\ ~providerUp
          /\ OwnRecord )
        => out'[c].status = 200 /\ out'[c].cacheState = "FROZEN"
    ]_vars

\* C6 (amended): while the provider fails after a successful refresh, every
\* request is answered 2xx; X-Horizons-Cache is FROZEN when the request awaits
\* a refresh and that refresh fails, HIT or STALE when the request is served
\* from a fresh or stale-but-serveable record without awaiting a refresh, and
\* MISS when the awaited refresh had fetched every body before the failure
\* (it was only waiting for the shared-store write).
C6_DegradedService ==
  \A c \in Callers :
    (Answered(c) /\ ~providerUp /\ OwnRecord) =>
      /\ out[c].status = 200
      /\ out[c].awaited = NoHandle =>
           /\ out[c].cacheState \in { "HIT", "STALE" }
           /\ ~out[c].forceRefresh
           /\ out[c].cacheAgeMs < CACHE_TTL_MS + STALE_WHILE_REVALIDATE_MS
      /\ out[c].awaited # NoHandle =>
           \/ out[c].cacheState = "FROZEN" /\ out[c].frozenHeader /\ out[c].staleHeader
           \/ out[c].cacheState = "MISS" /\ redis = "ready"

\* C6 witness: a request that had to await a refresh is answered FROZEN from
\* the process's own record while the provider is down
C6_FrozenWhileDown ==
  \E c \in Callers :
    /\ Succeeded(c)
    /\ ~providerUp
    /\ OwnRecord
    /\ ~out[c].forceRefresh
    /\ out[c].cacheState = "FROZEN"

\* C7 (as stated): once a refresh has succeeded no getSnapshot call rejects
\* and the route never answers 5xx; a 5xx is produced only when no record
\* exists in either tier.
C7_ErrorOnlyWithoutAnyRecord ==
  \A c \in Callers :
    Rejected(c) =>
      /\ ~OwnRecord
      /\ memoryCache = Null
      /\ HasClient(Cur) => RedisGet(redisStore) = Null

\* C7 (amended): a successful refresh leaves its record in the in-process
\* cache, that cache never becomes empty again, and no request is answered
\* 5xx while it holds a record, whatever provider failures, forced refreshes,
\* pre-warm ticks and shared-store read/write failures follow; a 5xx is
\* produced only when the in-process cache is empty and no record could be read
\* from the shared store.
C7_NoErrorOnceCached ==
  [][ /\ \A k \in RefreshIds :
           (refreshes[k].st = "fetching" /\ refreshes'[k].st # "fetching" /\ providerUp)
           => (memoryCache' # Null /\ memoryCache'.cachedAt = clock)
      /\ memoryCache # Null => memoryCache' # Null
      /\ \A c \in Callers :
           (out'[c] # Null /\ out'[c].status = 500)
           => (memoryCache = Null /\ memoryCache' = Null)
    ]_vars

\* C7 witness: a forced refresh fails after a successful one and is answered 200
C7_ForcedFailureSurvived ==
  \E c \in Callers :
    /\ Succeeded(c)
    /\ OwnRecord
    /\ ~providerUp
    /\ out[c].forceRefresh
    /\ out[c].cacheState = "FROZEN"

\* C8: a forced request never returns HIT or STALE, even with a fresh record
\* present: it skips the cache read, awaits a refresh, and on success returns
\* MISS with cacheAgeMs = 0.
C8_ForcedBypassesCache ==
  \A c \in Callers :
    /\ callers[c].forceRefresh => callers[c].pc \notin { "read" }
    /\ (Answered(c) /\ out[c].forceRefresh) =>
         /\ out[c].awaited # NoHandle
         /\ out[c].status = 200 =>
              /\ out[c].cacheState \in { "MISS", "FROZEN" }
              /\ out[c].cacheState = "MISS" =>
                   /\ out[c].cacheAgeMs = 0
                   /\ out[c].payload.metadata.cacheAgeMs = 0
                   /\ out[c].payload.metadata.cacheStatus = "MISS"

\* C8 witness: a forced request is answered MISS while a record served before
\* is still fresh
C8_ForcedMissOverFreshRecord ==
  \E c \in Callers :
    /\ Succeeded(c)
    /\ out[c].forceRefresh
    /\ out[c].cacheState = "MISS"
    /\ out[c].floor >= 0
    /\ clock - out[c].floor < CACHE_TTL_MS

\* C9: of two sequential getSnapshot calls, the second is served a record whose
\* cachedAt is the first's or greater (never an older record), in memory-only
\* mode and in two-tier mode with primary write failures.
C9_CachedAtNeverRegresses ==
  \A c \in Callers : Succeeded(c) => out[c].cachedAt >= out[c].floor

\* C10: stale-but-serveable reads return STALE without awaiting and start a
\* stale-revalidate refresh iff no handle exists; k such calls arriving before
\* that refresh completes cause exactly one provider cycle, so two
\* stale-revalidate refreshes are never in progress together.
C10_OneRevalidation ==
  Cardinality({ k \in RefreshIds :
                  InProgress(k) /\ refreshes[k].reason = "stale-revalidate" }) <= 1

\* A record holds one complete fan-out: every catalog entry, all of one refresh
CompleteRecord(record) ==
  /\ Len(record.payload.bodies) = NBodies
  /\ \A i \in 1 .. NBodies :
       /\ record.payload.bodies[i].name = Catalog[i]
       /\ record.payload.bodies[i].x_au = record.payload.timestamp

\* Refresh k rejects in this step (one of its fetches failed)
RefreshFails(k) ==
  /\ refreshes[k].st = "fetching"
  /\ refreshes'[k].st \in { "rejected", "settled" }
  /\ ~providerUp

\* C11: a refresh fails atomically: when one of the fetches of a fan-out fails,
\* refreshSnapshot rejects and neither the in-process record nor the
\* shared-store record is created or changed, whatever the refresh's reason; no
\* partial snapshot is ever held in either tier.
C11_RefreshFailsAtomically ==
  [][ /\ \A k \in RefreshIds :
           RefreshFails(k) =>
             /\ memoryCache' = memoryCache
             /\ memoryOwner' = memoryOwner
             /\ redisStore' = redisStore
             /\ \A n \in 1 .. Len(redisQueue') : redisQueue'[n] # Set(k)
      /\ memoryCache' # Null => CompleteRecord(memoryCache')
      /\ redisStore' # Null => CompleteRecord(redisStore'.rec)
    ]_vars

\* C11 witness: a refresh has failed (provider down during its fan-out), its
\* waiter is answered FROZEN, and the cached record is an earlier refresh's
C11_FailedRefreshLeftRecord ==
  \E c \in Callers :
    /\ Succeeded(c)
    /\ out[c].cacheState = "FROZEN"
    /\ memoryCache # Null
    /\ memoryCache.payload.timestamp # out[c].awaited
    /\ out[c].payload.bodies = memoryCache.payload.bodies

\* The names of a bodies list, in list order
Names(bodies) == [ i \in 1 .. Len(bodies) |-> bodies[i].name ]

\* C12: catalog completeness: every non-error getSnapshot result (HIT, STALE,
\* MISS, FROZEN) has a bodies list holding exactly the catalog's entries, once
\* each and in catalog order, whatever the order in which the fetches of the
\* fan-out completed.
C12_CatalogComplete ==
  \A c \in Callers :
    Succeeded(c) =>
      /\ out[c].cacheState \in { "HIT", "STALE", "MISS", "FROZEN" }
      /\ Names(out[c].payload.bodies) = Catalog

\* C12 witness: a MISS is answered with the snapshot of a fan-out of this
\* process (its fetches completed in either order)
C12_MissFromOwnFanOut ==
  \E c \in Callers :
    /\ Succeeded(c)
    /\ out[c].cacheState = "MISS"
    /\ out[c].awaited \in RefreshIds
    /\ out[c].payload.timestamp = out[c].awaited
    /\ Len(out[c].payload.bodies) = NBodies

\* C13: the record held in the in-process cache is never mutated in place: as
\* long as the object stored by a refresh's writeCache is the one memoryCache
\* holds (no later refresh and no mirror has replaced it), its payload,
\* payload.metadata included, is unchanged by every step.
C13_NeverMutatedInPlace ==
  [][ \A k \in RefreshIds :
        (memoryOwner = k /\ memoryOwner' = k) =>
          memoryCache'.payload = memoryCache.payload
    ]_vars

\* --- decoratePayloadMetadata applied twice to one stored record ---
\* The records refreshSnapshot can have left in memoryCache: built by refresh k
\* at time t, as stored by writeCache, with the MISS metadata written after the
\* write, or read back from the shared store
StoredRecords ==
  LET Built(k, t) ==
        MakeRecord(BuildSnapshot([ i \in 1 .. NBodies |-> StateVector(k, i) ],
                                 Latency(k)), t)
      Marked(k, t, backend, id) ==
        [ Built(k, t) EXCEPT
            !.payload.metadata = MissMetadata(@, backend, t, id) ]
  IN  UNION { { Built(k, t) }
              \cup { Marked(k, t, backend, id) :
                       backend \in { "memory", "redis" },
                       id \in { NoId } \cup Callers }
              \cup { JsonRoundTrip(Marked(k, t, "redis", id)) :
                       id \in { NoId } \cup Callers }
              : k \in 0 .. 1, t \in 0 .. MaxTime }

\* A process holding one of these records, at a time not before it was cached
InitDecorate ==
  /\ memoryCache \in StoredRecords
  /\ memoryOwner = 0
  /\ clock \in memoryCache.cachedAt .. MaxTime
  /\ providerUp = TRUE
  /\ redis = "none"
  /\ redisStore = Null
  /\ redisQueue = << >>
  /\ inflightPromise = NoHandle
  /\ refreshes = [ k \in RefreshIds |-> UnusedRefresh ]
  /\ nRefresh = 0
  /\ providerCalls = 0
  /\ callers = [ c \in Callers |-> IdleCaller ]
  /\ out = NoOut
  /\ served = -1
  /\ callsLeft = 0
  /\ horizons = Null
  /\ metrics = << >>
  /\ unhandled = {}

\* getSnapshot's HIT / STALE branch run for each caller on the cached record,
\* each with its own correlation id
DecoratePair ==
  /\ memoryCache # Null
  /\ \E ids \in [ Callers -> { NoId } \cup Callers ],
        cacheState \in { "HIT", "STALE" },
        backend \in { "memory", "redis" } :
       out' = [ c \in Callers |->
                  [ correlationId |-> ids[c],
                    payload |->
                      decoratePayloadMetadata(memoryCache.payload, cacheState,
                                              backend,
                                              clock - memoryCache.cachedAt,
                                              ids[c]) ] ]
  /\ UNCHANGED << clock, providerUp, redis, redisStore, redisQueue, memoryCache,
                  memoryOwner, inflightPromise, refreshes, nRefresh,
                  providerCalls, callers, served, callsLeft, horizons,
                  metrics, unhandled >>

NextDecorate == DecoratePair

SpecDecorate == InitDecorate /\ [][NextDecorate]_vars

\* The fields of a payload other than its metadata
Snapshot(payload) ==
  [ f \in DOMAIN payload \ { "metadata" } |-> payload[f] ]

\* C14: two decorations of the same cache record with different correlation
\* ids have identical bodies and timestamp (every field other than metadata is
\* the stored record's); they differ only in metadata fields.
C14_DecorationsDifferOnlyInMetadata ==
  \A c, d \in Callers :
    (out[c] # Null /\ out[d] # Null
       /\ out[c].correlationId # out[d].correlationId) =>
      /\ out[c].payload.bodies = out[d].payload.bodies
      /\ out[c].payload.timestamp = out[d].payload.timestamp
      /\ Snapshot(out[c].payload) = Snapshot(memoryCache.payload)
      /\ Snapshot(out[d].payload) = Snapshot(memoryCache.payload)

\* C14 witness: one record decorated for two correlation ids, and the results
\* differ (in metadata.requestId)
C14_TwoDecorationsDiffer ==
  \E c, d \in Callers :
    /\ out[c] # Null /\ out[d] # Null
    /\ out[c].correlationId # NoId /\ out[d].correlationId # NoId
    /\ out[c].correlationId # out[d].correlationId
    /\ out[c].payload # out[d].payload
    /\ out[c].payload.metadata.requestId # out[d].payload.metadata.requestId

\* Caller c goes through getSnapshot's catch branch on handle k in this step
UsesHandle(c, k) ==
  \/ out'[c] # Null /\ out'[c].awaited = k
  \/ callers'[c].pc \in { "await", "catchRead" } /\ callers'[c].awaiting = k

\* C15: the inflight handle is cleared on every exit path: once a refresh has
\* settled, whatever its reason and outcome, a request that needs a refresh
\* starts a new one; it never waits on, or takes the outcome of, the handle of a
\* refresh that has already settled.
C15_SettledHandleNeverReused ==
  [][ \A c \in Callers :
        ( /\ callers[c].pc \in { "idle", "L249", "read" }
          /\ inflightPromise # NoHandle
          /\ refreshes[inflightPromise].st = "rejected" ) =>
          ~UsesHandle(c, inflightPromise)
    ]_vars

\* The refreshes started without a caller: stale-revalidate and pre-warm
Background(k) ==
  refreshes[k].reason \in { "stale-revalidate", "background-prewarm" }

\* A forced call reaches `if (!inflightPromise)` in this step while background
\* refresh k is in flight: it awaits k and no refresh is started
C16_StartsNoFanOut ==
  \A c \in Callers, k \in RefreshIds :
    ( /\ callers[c].pc \in { "idle", "L249" }
      /\ callers'[c].pc = "await"
      /\ callers'[c].forceRefresh
      /\ InProgress(k) /\ Background(k) ) =>
      /\ callers'[c].awaiting = k
      /\ nRefresh' = nRefresh

\* Background refresh k resolves in this step and wakes a forced call that
\* awaited it: the call returns k's snapshot as MISS
C16_ReturnsMiss ==
  \A c \in Callers, k \in RefreshIds :
    ( /\ callers[c].pc = "await"
      /\ callers[c].forceRefresh
      /\ callers[c].awaiting = k
      /\ Background(k)
      /\ ~RefreshFails(k)
      /\ out'[c] # Null ) =>
      /\ out'[c].status = 200
      /\ out'[c].cacheState = "MISS"
      /\ out'[c].payload.timestamp = k

\* C16: a forced getSnapshot that arrives while a stale-revalidate or pre-warm
\* refresh is in flight does not start a second fan-out: it awaits the existing
\* handle and returns that refresh's result as MISS.
C16_ForcedJoinsBackgroundRefresh ==
  [][ C16_StartsNoFanOut /\ C16_ReturnsMiss ]_vars

\* Caller c is suspended on `await inflightPromise`, the handle being refresh k
WaitsOn(c, k) == callers[c].pc = "await" /\ callers[c].awaiting = k

\* Refresh k resolves in this step
RefreshResolves(k) ==
  /\ refreshes[k].st \in { "fetching", "writing" }
  /\ refreshes'[k].st = "settled"
  /\ ~RefreshFails(k)

\* On success every caller awaiting k returns MISS with k's snapshot, and any
\* two of them the same bodies, timestamp and cachedAt
C17_OnSuccess ==
  \A k \in RefreshIds :
    RefreshResolves(k) =>
      \A c, d \in Callers :
        (WaitsOn(c, k) /\ WaitsOn(d, k)) =>
          /\ out'[c] # Null
          /\ out'[c].status = 200
          /\ out'[c].cacheState = "MISS"
          /\ out'[c].payload.timestamp = k
          /\ out'[c].payload.bodies = out'[d].payload.bodies
          /\ out'[c].payload.timestamp = out'[d].payload.timestamp
          /\ out'[c].cachedAt = out'[d].cachedAt

\* On failure every caller awaiting k goes through its own catch branch with
\* k's error: FROZEN from the in-process record, else its own store read, else
\* the error
C17_OnFailure ==
  \A k \in RefreshIds :
    RefreshFails(k) =>
      \A c \in Callers :
        WaitsOn(c, k) =>
          IF memoryCache # Null
            THEN /\ out'[c] # Null
                 /\ out'[c].status = 200
                 /\ out'[c].cacheState = "FROZEN"
                 /\ out'[c].payload.bodies = memoryCache.payload.bodies
          ELSE IF redis = "ready"
            THEN /\ callers'[c].pc = "catchRead"
                 /\ callers'[c].err = FetchError(k)
                 /\ out'[c] = Null
          ELSE /\ out'[c] # Null
               /\ out'[c].status = 500
               /\ out'[c].cause = FetchError(k)

\* A caller's catch-branch read answers: FROZEN with the record the read left
\* in memoryCache, or the refresh's error when it left none
C17_AfterCatchRead ==
  \A c \in Callers :
    (callers[c].pc = "catchRead" /\ out'[c] # Null) =>
      IF memoryCache' # Null
        THEN /\ out'[c].status = 200
             /\ out'[c].cacheState = "FROZEN"
             /\ out'[c].payload.bodies = memoryCache'.payload.bodies
        ELSE /\ out'[c].status = 500
             /\ out'[c].cause = callers[c].err

\* C17 (amended): all callers awaiting the same inflight handle are served by
\* its single settlement: on success each returns MISS with the same bodies,
\* timestamp and cachedAt; on failure each goes through its own catch branch
\* and returns FROZEN if the in-process cache or its own store read yields a
\* record, and the refresh's error otherwise.
C17_ServedBySingleSettlement ==
  [][ C17_OnSuccess /\ C17_OnFailure /\ C17_AfterCatchRead ]_vars

\* C17: all callers awaiting the same inflight handle are served by its single
\* resolution: on success each returns MISS with the same bodies, timestamp and
\* cachedAt; on failure each returns FROZEN if a record exists (in the
\* in-process cache or in the connected store) and the same error otherwise.
C17_FrozenWheneverRecordExists ==
  [][ /\ C17_OnSuccess
      /\ \A c \in Callers :
           ( /\ callers[c].pc \in { "await", "catchRead" }
             /\ out'[c] # Null
             /\ out'[c].status = 500 ) =>
             /\ memoryCache = Null
             /\ redis = "ready" => RedisGet(redisStore) = Null
    ]_vars

\* C17 witness: two callers awaited one handle, the refresh failed, and both
\* are answered in the step of its rejection
C17_TwoWaitersOneFailure ==
  \E c, d \in Callers :
    /\ c # d
    /\ Answered(c) /\ Answered(d)
    /\ out[c].awaited = out[d].awaited
    /\ out[c].awaited \in RefreshIds
    /\ ~(Succeeded(c) /\ out[c].cacheState = "MISS")
    /\ ~(Succeeded(d) /\ out[d].cacheState = "MISS")

\* --- the two handleSnapshotRequest sources of the planets routes ---
\* The handlers found in the repository: the one with request tracing and the
\* frozen header, and the one in routes/ephemeris.ts
Routes == { "index.ts", "routes/ephemeris.ts" }

\* A getSnapshot result of state cacheState built from the cached record, as
\* the engine's branches build it for correlation id `correlationId`
ResultFor(cacheState, backend, correlationId) ==
  LET cacheAgeMs == IF cacheState = "MISS" THEN 0
                    ELSE clock - memoryCache.cachedAt
      decorated ==
        decoratePayloadMetadata(memoryCache.payload, cacheState, backend,
                                cacheAgeMs, correlationId)
      payload ==
        IF cacheState = "FROZEN"
          THEN [ decorated EXCEPT !.metadata =
                   FrozenMetadata(decorated.metadata, FetchError(1).message,
                                  correlationId) ]
          ELSE decorated
  IN  [ payload |-> payload, cacheState |-> cacheState,
        cacheBackend |-> backend, cacheAgeMs |-> cacheAgeMs ]

\* handleSnapshotRequest's try block: the cache headers of a 2xx response
\* (a header that is not set is absent from the record)
ResponseHeaders(route, result) ==
  IF route = "index.ts"
    THEN [ cache |-> result.cacheState,
           cacheBackend |-> result.cacheBackend,
           cacheAge |-> result.cacheAgeMs,
           ttl |-> CACHE_TTL_MS,
           cacheStale |-> IF result.cacheState \in { "STALE", "FROZEN" }
                            THEN "1" ELSE "0",
           frozen |-> IF Has(result.payload.metadata, "frozenSnapshot")
                         /\ result.payload.metadata.frozenSnapshot
                        THEN "1" ELSE "0" ]
    ELSE [ cache |-> result.cacheState,
           cacheBackend |-> result.cacheBackend,
           cacheAge |-> result.cacheAgeMs,
           ttl |-> CACHE_TTL_MS,
           cacheStale |-> IF result.cacheState = "STALE" THEN "1" ELSE "0" ]

\* GET /planets answered 2xx by one of the handlers from an engine result
HandleSnapshot(c, route) ==
  /\ memoryCache # Null
  /\ \E cacheState \in { "HIT", "STALE", "MISS", "FROZEN" },
        backend \in { "memory", "redis" } :
       LET result == ResultFor(cacheState, backend, RequestId(c))
       IN  out' = [ NoOut EXCEPT ![c] =
                      [ status |-> 200,
                        route |-> route,
                        cacheState |-> result.cacheState,
                        payload |-> result.payload,
                        headers |-> ResponseHeaders(route, result) ] ]
  /\ UNCHANGED << clock, providerUp, redis, redisStore, redisQueue, memoryCache,
                  memoryOwner, inflightPromise, refreshes, nRefresh,
                  providerCalls, callers, served, callsLeft, horizons,
                  metrics, unhandled >>

NextRoutes == \E c \in Callers, route \in Routes : HandleSnapshot(c, route)

SpecRoutes == InitDecorate /\ [][NextRoutes]_vars

\* C18: on every 2xx response of the planets route, X-Horizons-Cache equals the
\* engine's cacheState, X-Horizons-Cache-Stale is 1 iff cacheState is STALE or
\* FROZEN, and X-Horizons-Frozen is 1 iff the payload's frozenSnapshot flag is
\* set, which is the case iff cacheState is FROZEN.
C18_HeadersFollowCacheState ==
  \A c \in Callers :
    (out[c] # Null /\ out[c].status = 200) =>
      LET headers == out[c].headers
          frozenSnapshot ==
            /\ Has(out[c].payload.metadata, "frozenSnapshot")
            /\ out[c].payload.metadata.frozenSnapshot
      IN  /\ headers.cache = out[c].cacheState
          /\ headers.cacheStale = "1"
               <=> out[c].cacheState \in { "STALE", "FROZEN" }
          /\ (Has(headers, "frozen") /\ headers.frozen = "1") <=> frozenSnapshot
          /\ frozenSnapshot <=> out[c].cacheState = "FROZEN"

\* C19: whenever a snapshot route answers 500 because the engine failed, the
\* JSON error body contains both an error string and the request's correlation
\* id (requestId).
C19_ErrorBodyHasRequestId ==
  \A c \in Callers :
    Rejected(c) =>
      /\ Has(out[c], "error")
      /\ Has(out[c], "requestId")
      /\ out[c].requestId = RequestId(c)

\* --- GET /api/voyagers after a first successful one ---
\* config/voyagers: the probe catalog
VOYAGERS == << "Voyager 1", "Voyager 2" >>

\* res.json({ timestamp, requestId, metadata, voyagers: results }); the derived
\* distances and angles are left out
VoyagersResponse(c) ==
  [ status |-> 200,
    route |-> "voyagers",
    requestId |-> RequestId(c),
    voyagers |-> [ i \in 1 .. Len(VOYAGERS) |-> [ name |-> VOYAGERS[i] ] ] ]

\* res.status(500).json({ error, requestId })
VoyagersError(c) ==
  [ status |-> 500,
    route |-> "voyagers",
    error |-> "Impossible de recuperer les donnees Voyager",
    requestId |-> RequestId(c) ]

\* The process right after it answered a first GET /api/voyagers with 200, in
\* memory mode: that request's planets refresh is cached, its probe fetches
\* are done
InitVoyagers ==
  /\ clock = 0
  /\ providerUp = TRUE
  /\ redis = "none"
  /\ redisStore = Null
  /\ redisQueue = << >>
  /\ memoryCache =
       [ MakeRecord(BuildSnapshot([ i \in 1 .. NBodies |-> StateVector(1, i) ],
                                  Latency(1)), 0)
           EXCEPT !.payload.metadata =
                    MissMetadata(@, "memory", 0, RequestId(Client)) ]
  /\ memoryOwner = 1
  /\ inflightPromise = NoHandle
  /\ refreshes = [ k \in RefreshIds |-> IF k = 1 THEN Settled ELSE UnusedRefresh ]
  /\ nRefresh = 1
  /\ providerCalls = NBodies + Len(VOYAGERS)
  /\ callers = [ c \in Callers |-> IdleCaller ]
  /\ out = [ NoOut EXCEPT ![Client] = VoyagersResponse(Client) ]
  /\ served = 0
  /\ callsLeft = MaxCallsStale
  /\ horizons = Null
  /\ metrics = << >>
  /\ unhandled = {}

\* router.get('/') up to the probe fan-out, for a request that arrives while
\* the planets record can be served: getSnapshot returns it as HIT or STALE
\* without suspending (a STALE one starts the planets revalidation), then one
\* fetchPlanetStateVector per probe is issued
VoyagersCall(c) ==
  /\ callers[c].pc = "idle"
  /\ callsLeft > 0
  /\ callsLeft' = callsLeft - 1
  /\ LET s == Enter([ Cur EXCEPT !.callers[c] = IdleCaller ], c)
     IN  /\ s.out[c] # Null
         /\ s.out[c].status = 200
         /\ Commit([ s EXCEPT !.out[c] = Null,
                              !.callers[c].pc = "probes",
                              !.providerCalls = @ + Len(VOYAGERS) ])
  /\ UNCHANGED << clock, providerUp >>

\* the Promise.all over the probe fetches of request c settles
ProbesDone(c) ==
  /\ callers[c].pc = "probes"
  /\ Commit([ Cur EXCEPT !.callers[c] = IdleCaller,
                         !.out[c] = IF providerUp THEN VoyagersResponse(c)
                                    ELSE VoyagersError(c) ])
  /\ Env

NextVoyagers ==
  \/ \E c \in Callers : VoyagersCall(c)
  \/ \E c \in Callers : ProbesDone(c)
  \/ \E k \in RefreshIds, i \in 1 .. NBodies : FetchDone(k, i)
  \/ ProviderFails
  \/ ProviderRecovers
  \/ Tick

SpecVoyagers == InitVoyagers /\ [][NextVoyagers]_vars

\* C20: the probes snapshot follows the same cache path as the planets
\* snapshot: after a successful GET /api/voyagers and within TTL of it, a
\* further GET issues no provider fetch for the probes, concurrent requests
\* share one probe fan-out, and a provider failure yields a 2xx degraded
\* response rather than a 500.
C20_ProbesFollowCachePath ==
  [][ /\ \A c \in Callers :
           ( /\ callers[c].pc = "idle" /\ callers'[c].pc = "probes"
             /\ clock < CACHE_TTL_MS ) =>
             providerCalls' = providerCalls
      /\ Cardinality({ c \in Callers : callers'[c].pc = "probes" }) <= 1
      /\ \A c \in Callers :
           (out'[c] # Null /\ out'[c].route = "voyagers") =>
             out'[c].status = 200
    ]_vars

\* What getSnapshot does in this step with the record readCache returned to
\* caller c: a 2xx answer carries that record's snapshot, and an error is
\* possible only in the catch branch and only without a record
C21_Returned(c, cached) ==
  /\ out'[c] # Null =>
       IF out'[c].status = 200
         THEN /\ cached # Null
              /\ out'[c].payload.bodies = cached.payload.bodies
              /\ out'[c].cachedAt = cached.cachedAt
         ELSE cached = Null /\ callers[c].pc = "catchRead"
  /\ (cached # Null /\ callers[c].pc = "catchRead") => out'[c] # Null

\* C21: readCache with a connected primary: when the primary returns a value,
\* that value is mirrored into the in-process cache and returned; when the
\* read throws or returns nothing, the call does not fail and returns the
\* in-process record (possibly none).
C21_ReadMirrorsOrFallsBack ==
  [][ \A c \in Callers :
        ( /\ callers[c].pc \in { "read", "catchRead" }
          /\ callers'[c].pc # callers[c].pc ) =>
          LET raw == callers[c].raw
          IN  \/ /\ raw # Null
                 /\ memoryCache' = raw
                 /\ memoryOwner' = 0
                 /\ C21_Returned(c, raw)
              \/ /\ memoryCache' = memoryCache
                 /\ memoryOwner' = memoryOwner
                 /\ C21_Returned(c, memoryCache)
    ]_vars

\* C21 witness: a read has mirrored the store's record into the in-process
\* cache and the caller is answered from it
C21_MirroredAndServed ==
  /\ redis = "ready"
  /\ memoryCache # Null
  /\ memoryOwner = 0
  /\ \E c \in Callers :
       /\ Succeeded(c)
       /\ out[c].cacheState \in { "HIT", "STALE" }
       /\ out[c].payload.bodies = memoryCache.payload.bodies
       /\ out[c].cachedAt = memoryCache.cachedAt

\* The fan-out of refresh k completes in this step: refreshSnapshot builds the
\* record and calls writeCache
C22_Puts(k) ==
  /\ refreshes[k].st = "fetching"
  /\ providerUp
  /\ refreshes[k].pending \in { {i} : i \in 1 .. NBodies }
  /\ refreshes'[k].st \in { "writing", "settled" }

C23_MemoryOnlyForever ==
  [][ (redis = "none" \/ redis = "failed") =>
        /\ redis' = redis
        /\ redisStore' = redisStore
        /\ redisQueue' = << >>
        /\ \A c \in Callers : callers'[c].pc \notin { "read", "catchRead" }
        /\ \A k \in RefreshIds : refreshes'[k].st # "writing"
        /\ \A c \in Callers :
             (out'[c] # Null /\ out'[c].status = 200) =>
               /\ out'[c].cacheBackend = "memory"
               /\ out'[c].payload.metadata.cacheBackend = "memory"
    ]_vars

\* C23 witness: after the connection attempt failed, a request is answered from
\* a refresh of this process
C23_ServedAfterFailedConnect ==
  /\ redis = "failed"
  /\ \E c \in Callers :
       /\ Succeeded(c)
       /\ out[c].cacheBackend = "memory"
       /\ out[c].payload.timestamp \in RefreshIds

\* C24: determining the backend is non-blocking: a getSnapshot or
\* refreshSnapshot call issued while the shared-store connection attempt has
\* not yet settled proceeds without waiting for that attempt.
C24_NeverWaitsForConnection ==
  /\ \A c \in Callers : callers[c].pc # "L249"
  /\ \A k \in RefreshIds : refreshes[k].st # "L178"

\* Values Number(process.env.CACHE_TTL_MS) and the pre-warm interval can take
EnvValues == { Num(n) : n \in -1 .. MaxTime } \cup { NaN, Infinity }

\* A background-prewarm refresh is started in this step
C25_PrewarmStarts ==
  /\ nRefresh' = nRefresh + 1
  /\ refreshes'[nRefresh'].reason = "background-prewarm"

\* The ticker exists iff TTL > 0 and the interval is finite and > 0
C25_TickerCondition ==
  /\ \A ttl, interval \in EnvValues :
       TickerExists(ttl, interval) <=>
         /\ ttl = Infinity \/ (ttl \in { Num(n) : n \in 1 .. MaxTime })
         /\ interval \in { Num(n) : n \in 1 .. MaxTime }
  /\ ~TickerExists(Num(CACHE_TTL_MS), Num(0))

\* C25: the pre-warm ticker exists iff TTL > 0 and the interval is finite and
\* > 0 (0 disables it); on each tick a refresh with reason background-prewarm
\* is started iff no inflight handle exists, and a tick that finds a handle
\* does nothing.
C25_PrewarmTicker ==
  [][ /\ C25_TickerCondition
      /\ (clock' = clock /\ providerUp' = providerUp /\ Prewarm) =>
           IF inflightPromise = NoHandle
             THEN /\ C25_PrewarmStarts
                  /\ inflightPromise' = nRefresh'
                  /\ refreshes'[nRefresh'].withFinally
             ELSE /\ inflightPromise' = inflightPromise
                  /\ refreshes' = refreshes
                  /\ nRefresh' = nRefresh
                  /\ providerCalls' = providerCalls
                  /\ memoryCache' = memoryCache
                  /\ callers' = callers
      /\ C25_PrewarmStarts => inflightPromise = NoHandle
    ]_vars

\* C25 witness: a tick found no handle and its background-prewarm refresh holds
\* the handle
C25_PrewarmInFlight ==
  \E k \in RefreshIds :
    /\ inflightPromise = k
    /\ refreshes[k].reason = "background-prewarm"
    /\ refreshes[k].st \in { "L178", "fetching" }

Tokens ==
  { << "1" >>,                          \* "1"
    << "-", "2" >>,                     \* "-2"
    << "-" >>,                          \* "-"
    << "1", "E", "9", "9", "9" >>,      \* "1E999"
    << "a" >> }                         \* "a"

DigitValue ==
  [ ch \in { "0", "1", "2", "3", "4", "5", "6", "7", "8", "9" } |->
      CASE ch = "0" -> 0 [] ch = "1" -> 1 [] ch = "2" -> 2 [] ch = "3" -> 3
        [] ch = "4" -> 4 [] ch = "5" -> 5 [] ch = "6" -> 6 [] ch = "7" -> 7
        [] ch = "8" -> 8 [] ch = "9" -> 9 ]
IsDigit(ch) == ch \in DOMAIN DigitValue

\* Greatest decimal exponent of a finite double (Number.MAX_VALUE ~ 1.8E308)
MaxDecimalExponent == 308

\* The index after the run of digits of `chars` that starts at index i
RECURSIVE DigitsEnd(_, _)
DigitsEnd(chars, i) ==
  IF i <= Len(chars) /\ IsDigit(chars[i]) THEN DigitsEnd(chars, i + 1) ELSE i

\* The value of the decimal digits chars[i .. j - 1]
RECURSIVE DigitsValue(_, _, _)
DigitsValue(chars, i, j) ==
  IF i >= j THEN 0
  ELSE DigitsValue(chars, i, j - 1) * 10 + DigitValue[chars[j - 1]]

\* parseFloat(string): the longest prefix that is a decimal literal, NaN when
\* there is none; a literal beyond the range of a double is Infinity
parseFloat(chars) ==
  LET signed == Len(chars) >= 1 /\ chars[1] \in { "-", "+" }
      first == IF signed THEN 2 ELSE 1
      last == DigitsEnd(chars, first)
      magnitude == DigitsValue(chars, first, last)
      mantissa == IF signed /\ chars[1] = "-" THEN 0 - magnitude ELSE magnitude
      hasExponent == /\ last + 1 <= Len(chars)
                     /\ chars[last] \in { "E", "e" }
                     /\ IsDigit(chars[last + 1])
      exponent == DigitsValue(chars, last + 1, DigitsEnd(chars, last + 1))
  IN  IF last = first THEN NaN
      ELSE IF ~hasExponent \/ mantissa = 0 THEN Num(mantissa)
      ELSE IF exponent > MaxDecimalExponent
             THEN IF mantissa < 0 THEN [ kind |-> "-Infinity" ] ELSE Infinity
      ELSE Num(mantissa * 10 ^ exponent)

\* A line of the text Horizons returns: a marker, the units header, or a
\* coordinate "NAME = value"
Marker(m) == [ line |-> m ]
Units(u) == [ line |-> "Output units", value |-> u ]
Coordinate(name, chars) == [ line |-> name, value |-> chars ]

FieldNames == << "X", "Y", "Z", "VX", "VY", "VZ" >>

\* The coordinate names in which an unanchored /NAME\s*=\s*(...)/ finds a
\* match: "VX = 1" contains "X = 1"
Matching ==
  [ X |-> { "X", "VX" }, Y |-> { "Y", "VY" }, Z |-> { "Z", "VZ" },
    VX |-> { "VX" }, VY |-> { "VY" }, VZ |-> { "VZ" } ]

\* The characters of the class [-+\d.Ee]
InClass(ch) == IsDigit(ch) \/ ch \in { "-", "+", ".", "E", "e" }

RECURSIVE ClassEnd(_, _)
ClassEnd(chars, i) ==
  IF i <= Len(chars) /\ InClass(chars[i]) THEN ClassEnd(chars, i + 1) ELSE i

\* The group ([-+\d.Ee]+) captures at the start of `chars`
Capture(chars) == SubSeq(chars, 1, ClassEnd(chars, 1) - 1)

\* text.indexOf(marker), counted in lines from 1; 0 when there is none
RECURSIVE IndexFrom(_, _, _)
IndexFrom(text, m, i) ==
  IF i > Len(text) THEN 0
  ELSE IF text[i].line = m THEN i
  ELSE IndexFrom(text, m, i + 1)
IndexOf(text, m) == IndexFrom(text, m, 1)

\* block.match(/NAME\s*=\s*([-+\d.Ee]+)/): the group of the first match, or
\* Undef when nothing matches
RECURSIVE MatchFrom(_, _, _)
MatchFrom(block, name, i) ==
  IF i > Len(block) THEN Undef
  ELSE IF block[i].line \in Matching[name] /\ Capture(block[i].value) # << >>
         THEN Str(Capture(block[i].value))
  ELSE MatchFrom(block, name, i + 1)
Match(block, name) == MatchFrom(block, name, 2)

\* 10 * AU_IN_KM and SECONDS_PER_DAY
AU_IN_KM_x10 == 1495978707
SECONDS_PER_DAY == 86400

\* x * num / den for a number x; NaN and the infinities are unchanged by it
Scaled(x, num, den) ==
  IF x.kind = "number"
    THEN IF x.value = 0 THEN x
         ELSE [ kind |-> "number", value |-> x.value * num, over |-> den ]
    ELSE x

\* An Error with this message
HorizonsError(message) == [ message |-> message ]

\* parseVectorFromResult(resultText): the vector returned, or the Error thrown
parseVectorFromResult(resultText, name, now) ==
  LET soeIndex == IndexOf(resultText, "$$SOE")
      eoeIndex == IndexOf(resultText, "$$EOE")
      block == SubSeq(resultText, soeIndex, eoeIndex - 1)
      matchX == Match(block, "X")
      matchY == Match(block, "Y")
      matchZ == Match(block, "Z")
      matchVx == Match(block, "VX")
      matchVy == Match(block, "VY")
      matchVz == Match(block, "VZ")
      unitsAt == IndexOf(resultText, "Output units")
      km == unitsAt # 0 /\ resultText[unitsAt].value = "KM-S"
      toAu(x) == IF km THEN Scaled(x, 10, AU_IN_KM_x10) ELSE x
      toAuPerDay(v) ==
        IF km THEN Scaled(v, 10 * SECONDS_PER_DAY, AU_IN_KM_x10) ELSE v
  IN  IF soeIndex = 0 \/ eoeIndex = 0 \/ eoeIndex <= soeIndex
        THEN [ threw |-> HorizonsError("Réponse Horizons sans bloc $$SOE/$$EOE") ]
      ELSE IF matchX = Undef \/ matchY = Undef \/ matchZ = Undef
        THEN [ threw |-> HorizonsError(
                 "Coordonnées X/Y/Z manquantes dans la réponse Horizons") ]
      ELSE [ returned |->
               [ name |-> name,
                 x_au |-> toAu(parseFloat(matchX.v)),
                 y_au |-> toAu(parseFloat(matchY.v)),
                 z_au |-> toAu(parseFloat(matchZ.v)),
                 vx_au_per_day |-> IF matchVx # Undef
                                     THEN toAuPerDay(parseFloat(matchVx.v))
                                     ELSE Undef,
                 vy_au_per_day |-> IF matchVy # Undef
                                     THEN toAuPerDay(parseFloat(matchVy.v))
                                     ELSE Undef,
                 vz_au_per_day |-> IF matchVz # Undef
                                     THEN toAuPerDay(parseFloat(matchVz.v))
                                     ELSE Undef,
                 velocityUnit |-> "AU/day",
                 referenceFrame |-> "J2000-ECLIPTIC",
                 source |-> "NASA-JPL-Horizons",
                 timestamp |-> IF Len(block) > 1 THEN block[2]
                               ELSE [ now |-> now ] ] ]

\* Number.isFinite(v); false for undefined
NumberIsFinite(v) == v # Undef /\ IsFinite(v)

\* response.data of the shapes the client tells apart
VectorsData(vectors) ==
  [ t |-> "object", result |-> [ t |-> "object", vectors |-> vectors ] ]
TextData(resultText) ==
  [ t |-> "object", result |-> [ t |-> "string", text |-> resultText ] ]
BareText(resultText) == [ t |-> "string", text |-> resultText ]
EmptyData == [ t |-> "object", result |-> Undef ]

\* parseFloat(vec[f]) of the structured shape; parseFloat(undefined) is NaN
ParseField(vec, f) == IF vec[f] = Undef THEN NaN ELSE parseFloat(vec[f].v)

\* fetchPlanetStateVector from the point where axios.get settles: the value
\* returned or the Error rethrown, and the events logged on the way
fetchPlanetStateVector(response, name, now) ==
  LET data == response.data
      structured == /\ data.t = "object"
                    /\ data.result # Undef
                    /\ data.result.t = "object"
                    /\ Len(data.result.vectors) > 0
      vec == data.result.vectors[1]
      x == ParseField(vec, "X")
      y == ParseField(vec, "Y")
      z == ParseField(vec, "Z")
      vx == IF vec.VX # Undef THEN parseFloat(vec.VX.v) ELSE Undef
      vy == IF vec.VY # Undef THEN parseFloat(vec.VY.v) ELSE Undef
      vz == IF vec.VZ # Undef THEN parseFloat(vec.VZ.v) ELSE Undef
      resultText == IF data.t = "object" /\ data.result # Undef
                       /\ data.result.t = "string"
                      THEN data.result
                    ELSE IF data.t = "string" THEN data
                    ELSE Undef
      try ==
        IF response.outcome = "rejected" THEN [ threw |-> response.error ]
        ELSE IF structured
          THEN IF ~IsFinite(x) \/ ~IsFinite(y) \/ ~IsFinite(z)
                 THEN [ threw |->
                          HorizonsError("Vecteur Horizons invalide (X, Y, Z)") ]
               ELSE [ returned |->
                        [ name |-> name,
                          x_au |-> x,
                          y_au |-> y,
                          z_au |-> z,
                          vx_au_per_day |->
                            IF NumberIsFinite(vx) THEN vx ELSE Undef,
                          vy_au_per_day |->
                            IF NumberIsFinite(vy) THEN vy ELSE Undef,
                          vz_au_per_day |->
                            IF NumberIsFinite(vz) THEN vz ELSE Undef,
                          velocityUnit |-> "AU/day",
                          referenceFrame |-> "J2000-ECLIPTIC",
                          source |-> "NASA-JPL-Horizons",
                          timestamp |-> [ now |-> now ] ] ]
        ELSE IF resultText = Undef \/ resultText.text = << >>
          THEN [ threw |-> HorizonsError("Réponse Horizons invalide ou vide") ]
        ELSE parseVectorFromResult(resultText.text, name, now)
  IN  IF Has(try, "returned")
        THEN [ pc |-> "returned", value |-> try.returned,
               log |-> << "horizons_fetch" >> ]
        ELSE [ pc |-> "threw", error |-> try.threw,
               log |-> << "horizons_fetch_error" >> ]

\* --- One call of fetchPlanetStateVector on each response axios can deliver ---
\* X ranges over every literal; the other fields over an absent one, a finite
\* one and one that parses to NaN
AllValues == { Undef } \cup { Str(chars) : chars \in Tokens }
SomeValues == { Undef, Str(<< "1" >>), Str(<< "-" >>) }

\* vectors[0] of the structured shape
Vectors ==
  [ X : AllValues, Y : SomeValues, Z : SomeValues,
    VX : SomeValues, VY : SomeValues, VZ : SomeValues ]

\* The coordinate lines of a text block printing the fields vec defines
CoordinateLines(vec) ==
  LET present == SelectSeq(FieldNames, LAMBDA f : vec[f] # Undef)
  IN  [ i \in 1 .. Len(present) |-> Coordinate(present[i], vec[present[i]].v) ]

Layouts == { "block", "no $$SOE", "no $$EOE", "$$EOE first" }
OutputUnits == { "AU-D", "KM-S" }

\* The result text: the units header, then the block with its markers
ResultText(vec, layout, units) ==
  << Units(units) >> \o
    CASE layout = "block" ->
           << Marker("$$SOE") >> \o CoordinateLines(vec) \o << Marker("$$EOE") >>
      [] layout = "no $$SOE" -> CoordinateLines(vec) \o << Marker("$$EOE") >>
      [] layout = "no $$EOE" -> << Marker("$$SOE") >> \o CoordinateLines(vec)
      [] layout = "$$EOE first" ->
           << Marker("$$EOE") >> \o CoordinateLines(vec) \o << Marker("$$SOE") >>

AxiosRejects(error) == [ outcome |-> "rejected", error |-> error ]
AxiosFulfils(data) == [ outcome |-> "fulfilled", data |-> data ]

\* axios.get rejects when the transport fails and on a status outside 2xx
NetworkError == [ message |-> "Network Error" ]
StatusError(status) ==
  [ message |-> "Request failed with status code", status |-> status ]

Responses ==
  { AxiosRejects(NetworkError), AxiosRejects(StatusError(503)),
    AxiosFulfils(EmptyData), AxiosFulfils(VectorsData(<< >>)),
    AxiosFulfils(TextData(<< >>)) }
  \cup { AxiosFulfils(VectorsData(<< vec >>)) : vec \in Vectors }
  \cup { AxiosFulfils(TextData(ResultText(vec, layout, units))) :
           vec \in Vectors, layout \in Layouts, units \in OutputUnits }
  \cup { AxiosFulfils(BareText(ResultText(vec, "block", "AU-D"))) :
           vec \in [ X : AllValues, Y : { Str(<< "1" >>) },
                     Z : { Str(<< "1" >>) }, VX : { Undef }, VY : { Undef },
                     VZ : { Undef } ] }

\* The request was sent and axios.get is about to settle with `response`
InitHorizons ==
  /\ providerUp = TRUE
  /\ redisQueue = << >>
  /\ memoryCache = Null
  /\ memoryOwner = 0
  /\ inflightPromise = NoHandle
  /\ refreshes = [ k \in RefreshIds |-> UnusedRefresh ]
  /\ nRefresh = 0
  /\ providerCalls = 0
  /\ callers = [ c \in Callers |-> IdleCaller ]
  /\ out = NoOut
  /\ served = -1
  /\ horizons \in { [ response |-> response, result |-> Null ] :
                     response \in Responses }
  /\ metrics = << >>
  /\ unhandled = {}
  /\ clock = 0
  /\ redis = "none"
  /\ redisStore = Null
  /\ callsLeft = 0

\* axios.get settles and the rest of fetchPlanetStateVector runs
HorizonsSettles ==
  /\ horizons # Null
  /\ horizons.result = Null
  /\ horizons' =
       [ horizons EXCEPT
           !.result = fetchPlanetStateVector(horizons.response, Catalog[1],
                                             clock) ]
  /\ UNCHANGED << clock, providerUp, redis, redisStore, redisQueue, memoryCache,
                  memoryOwner, inflightPromise, refreshes, nRefresh,
                  providerCalls, callers, out, served, callsLeft, metrics,
                  unhandled >>

NextHorizons == HorizonsSettles

SpecHorizons == InitHorizons /\ [][NextHorizons]_vars

\* The StateVector the call returned, if it returned one
Returned == horizons # Null /\ horizons.result # Null
            /\ horizons.result.pc = "returned"

PositionFinite(v) == IsFinite(v.x_au) /\ IsFinite(v.y_au) /\ IsFinite(v.z_au)
VelocityOf(v) == { v.vx_au_per_day, v.vy_au_per_day, v.vz_au_per_day }
VelocityAllOrNone(v) ==
  \/ VelocityOf(v) = { Undef }
  \/ \A component \in VelocityOf(v) : NumberIsFinite(component)

\* C27: every StateVector fetchPlanetStateVector returns, from the structured
\* vectors array or from the $$SOE/$$EOE text block, has finite x, y and z, and
\* has either all three velocity components present and finite or none of them.
C27_ReturnedVectorWellFormed ==
  Returned => /\ PositionFinite(horizons.result.value)
              /\ VelocityAllOrNone(horizons.result.value)

\* The call threw, its only log event being horizons_fetch_error
Threw ==
  /\ horizons.result.pc = "threw"
  /\ horizons.result.log = << "horizons_fetch_error" >>

Settled200(shape) ==
  /\ horizons # Null /\ horizons.result # Null
  /\ horizons.response.outcome = "fulfilled"
  /\ horizons.response.data.t = "object"
  /\ horizons.response.data.result # Undef
  /\ horizons.response.data.result.t = shape

\* The text of the first line "name = ..." of a text, Undef when it has none
RECURSIVE LineFrom(_, _, _)
LineFrom(text, name, i) ==
  IF i > Len(text) THEN Undef
  ELSE IF text[i].line = name THEN Str(text[i].value)
  ELSE LineFrom(text, name, i + 1)

\* The coordinate is there and its text parses to a finite number
Parses(field) == field # Undef /\ IsFinite(parseFloat(field.v))

\* The transport failed or answered outside 2xx
C28_TransportFails ==
  horizons # Null /\ horizons.result # Null
    /\ horizons.response.outcome = "rejected"

\* Neither a non-empty vectors array nor a non-empty text
C28_NoShape ==
  /\ horizons # Null /\ horizons.result # Null
  /\ horizons.response.outcome = "fulfilled"
  /\ \/ horizons.response.data = EmptyData
     \/ horizons.response.data = VectorsData(<< >>)
     \/ horizons.response.data = TextData(<< >>)

\* A text without $$SOE, without $$EOE, or with $$EOE before $$SOE
C28_MarkersWrong ==
  /\ Settled200("string")
  /\ LET text == horizons.response.data.result.text
     IN  \/ IndexOf(text, "$$SOE") = 0
         \/ IndexOf(text, "$$EOE") = 0
         \/ IndexOf(text, "$$EOE") < IndexOf(text, "$$SOE")

\* Structured shape: one of X, Y, Z is absent or does not parse to a finite
\* number
C28_VectorPositionBad ==
  /\ Settled200("object")
  /\ Len(horizons.response.data.result.vectors) > 0
  /\ \E f \in { "X", "Y", "Z" } :
       ~Parses(horizons.response.data.result.vectors[1][f])

\* Text shape: one of the lines X, Y, Z is absent or its text does not parse
\* to a finite number
C28_TextPositionBad ==
  /\ Settled200("string")
  /\ \E f \in { "X", "Y", "Z" } :
       ~Parses(LineFrom(horizons.response.data.result.text, f, 1))

\* C28: fetchPlanetStateVector throws, after emitting horizons_fetch_error,
\* and returns no StateVector whenever the transport fails or answers outside
\* 2xx, neither response shape is recognizable, the $$SOE/$$EOE markers are
\* missing or out of order, or one of X, Y, Z is absent or does not parse to a
\* finite number; when it returns, it has emitted horizons_fetch exactly once.
C28_FailsOnBadResponse ==
  /\ C28_TransportFails => Threw
  /\ C28_NoShape => Threw
  /\ C28_MarkersWrong => Threw
  /\ C28_VectorPositionBad => Threw
  /\ C28_TextPositionBad => Threw
  /\ Returned => horizons.result.log = << "horizons_fetch" >>

\* ------------------------------------------------------- request tracing
\* The id randomUUID() returns: none a client sends
RandomUUID == NCallers + 1

\* The X-Request-Id and X-Correlation-Id headers a client may send (NoId: the
\* header is not sent)
TracingHeaders ==
  [ xRequestId : { NoId } \cup Callers, xCorrelationId : { NoId } \cup Callers ]

\* req and res as express hands them to the first middleware
Incoming(headers) ==
  [ req |-> [ headers |-> headers, requestId |-> NoId ],
    res |-> [ xRequestId |-> NoId ] ]

\* applyRequestTracing's middleware
applyRequestTracing(ctx) ==
  LET incomingId == IF ctx.req.headers.xRequestId # NoId
                      THEN ctx.req.headers.xRequestId
                      ELSE ctx.req.headers.xCorrelationId
      requestId == IF incomingId # NoId THEN incomingId ELSE RandomUUID
  IN  [ ctx EXCEPT !.req.requestId = requestId, !.res.xRequestId = requestId ]

\* index.ts: the middlewares app.use() mounts before the ephemeris router
AppMiddlewares == << "cors", "express.json" >>

\* One middleware run on a request; cors() and express.json() touch neither
\* req.requestId nor the X-Request-Id header
Use(name, ctx) ==
  IF name = "applyRequestTracing" THEN applyRequestTracing(ctx) ELSE ctx

RECURSIVE Through(_, _)
Through(middlewares, ctx) ==
  IF middlewares = << >> THEN ctx
  ELSE Through(Tail(middlewares), Use(Head(middlewares), ctx))

\* handleSnapshotRequest, 2xx path: the X-Request-Id header it leaves on res
RequestIdHeader(ctx, payload) ==
  LET requestId == ctx.req.requestId
  IN  IF payload.metadata.requestId # NoId \/ requestId # NoId
        THEN IF payload.metadata.requestId # NoId
               THEN payload.metadata.requestId ELSE requestId
        ELSE ctx.res.xRequestId

\* GET /api/ephemeris/planets through the app: the middlewares, then the
\* handler answering 2xx from an engine result of state cacheState
PlanetsRequest(c, headers, cacheState, backend) ==
  /\ memoryCache # Null
  /\ out = NoOut
  /\ LET ctx == Through(AppMiddlewares, Incoming(headers))
         result == ResultFor(cacheState, backend, ctx.req.requestId)
     IN  out' = [ NoOut EXCEPT ![c] =
                    [ status |-> 200,
                      request |-> headers,
                      correlationId |-> ctx.req.requestId,
                      cacheState |-> result.cacheState,
                      payload |-> result.payload,
                      xRequestId |-> RequestIdHeader(ctx, result.payload) ] ]
  /\ UNCHANGED << clock, providerUp, redis, redisStore, redisQueue, memoryCache,
                  memoryOwner, inflightPromise, refreshes, nRefresh,
                  providerCalls, callers, served, callsLeft, horizons,
                  metrics, unhandled >>

NextTracing ==
  \E c \in Callers, headers \in TracingHeaders,
     cacheState \in { "HIT", "STALE", "MISS", "FROZEN" },
     backend \in { "memory", "redis" } :
    PlanetsRequest(c, headers, cacheState, backend)

SpecTracing == InitDecorate /\ [][NextTracing]_vars

\* The id of a request by the claim's rule, when a header gives one
GivenId(headers) ==
  IF headers.xRequestId # NoId THEN headers.xRequestId
  ELSE headers.xCorrelationId

\* C29: the id of a request is its X-Request-Id header, else its
\* X-Correlation-Id header, else a generated UUID; that id is the correlation
\* id the engine is called with, and every 2xx planets response (HIT, STALE,
\* MISS, FROZEN) carries it in the X-Request-Id header and in
\* metadata.requestId.
C29_CorrelationIdCarriedBack ==
  \A c \in Callers :
    out[c] # Null =>
      LET id == IF GivenId(out[c].request) # NoId
                  THEN GivenId(out[c].request) ELSE RandomUUID
      IN  /\ out[c].correlationId = id
          /\ out[c].xRequestId = id
          /\ out[c].payload.metadata.requestId = id

\* ------------------------------------------------- forced-refresh signal
\* What req.query.refresh and req.headers['x-refresh-cache'] may hold: nothing,
\* one value, or a list of up to MaxValues values
MaxValues == 2
RefreshStrings == { "0", "1", "true" }
RefreshValues ==
  { Undef } \cup { Str(v) : v \in RefreshStrings }
    \cup { Arr(a) : a \in UNION { [ 1 .. n -> RefreshStrings ] : n \in 0 .. MaxValues } }

\* handleSnapshotRequest up to the computation of forceRefresh
ParseRefresh(c, refreshParam, refreshHeaderRaw) ==
  /\ out = NoOut
  /\ out' = [ NoOut EXCEPT ![c] =
                [ refreshParam |-> refreshParam,
                  refreshHeaderRaw |-> refreshHeaderRaw,
                  forceRefresh |-> ForceRefresh(refreshParam, refreshHeaderRaw) ] ]
  /\ UNCHANGED << clock, providerUp, redis, redisStore, redisQueue, memoryCache,
                  memoryOwner, inflightPromise, refreshes, nRefresh,
                  providerCalls, callers, served, callsLeft, horizons,
                  metrics, unhandled >>

NextRefresh ==
  \E c \in Callers, refreshParam \in RefreshValues,
     refreshHeaderRaw \in RefreshValues :
    ParseRefresh(c, refreshParam, refreshHeaderRaw)

SpecRefresh == Init /\ [][NextRefresh]_vars

\* The values a query parameter or a header carries
ValuesOf(x) ==
  IF x.t = "str" THEN { x.v }
  ELSE IF x.t = "arr" THEN { x.v[i] : i \in 1 .. Len(x.v) }
  ELSE { }

\* C30: a request is forced iff its refresh query parameter or its
\* X-Refresh-Cache header has the value 1 or true; when either carries several
\* values, the request is forced iff at least one of them is 1 or true, for
\* the query parameter and for the header alike.
C30_ForcedIffSomeValueMatches ==
  \A c \in Callers :
    out[c] # Null =>
      (out[c].forceRefresh <=>
         \E v \in ValuesOf(out[c].refreshParam)
                    \cup ValuesOf(out[c].refreshHeaderRaw) : IsOn(v))

\* ------------------------------------------------ probes enrichment
JsNull == [ kind |-> "null" ]

\* a - b on numbers; NaN as soon as one operand is no finite number
Minus(a, b) ==
  IF IsFinite(a) /\ IsFinite(b) THEN Num(a.value - b.value) ELSE NaN

\* Greatest coordinate difference the inputs below produce
MaxDelta == 100

\* Math.sqrt(n): exact on the squares, otherwise the root left symbolic
Sqrt(n) ==
  IF \E r \in 0 .. 2 * MaxDelta : r * r = n
    THEN Num(CHOOSE r \in 0 .. 2 * MaxDelta : r * r = n)
    ELSE [ kind |-> "number", sqrt |-> n ]

\* x * factor for a constant factor > 0, left symbolic; 0 and NaN stay as
\* they are
Times(x, factor) ==
  IF x = Num(0) \/ x = NaN THEN x
  ELSE [ kind |-> "number", times |-> factor, of |-> x ]

\* `v ? ... : ...` on a number or null
Truthy(v) == v # JsNull /\ v # Num(0) /\ v # NaN

\* magnitude(x, y, z)
magnitude(x, y, z) ==
  IF x = Undef \/ y = Undef \/ z = Undef
     \/ ~IsFinite(x) \/ ~IsFinite(y) \/ ~IsFinite(z)
    THEN JsNull
    ELSE Sqrt(x.value * x.value + y.value * y.value + z.value * z.value)

\* deltaMagnitude(ax, ay, az, bx, by, bz)
deltaMagnitude(ax, ay, az, bx, by, bz) ==
  IF ax = Undef \/ ay = Undef \/ az = Undef
     \/ bx = Undef \/ by = Undef \/ bz = Undef
    THEN JsNull
    ELSE magnitude(Minus(ax, bx), Minus(ay, by), Minus(az, bz))

\* computeLightTime(distanceKm)
computeLightTime(distanceKm) ==
  IF distanceKm = JsNull \/ ~IsFinite(distanceKm)
    THEN [ oneWaySeconds |-> JsNull, oneWayMinutes |-> JsNull,
           twoWayMinutes |-> JsNull ]
    ELSE LET oneWaySeconds == Times(distanceKm, "1 / SPEED_OF_LIGHT_KM_S")
         IN  [ oneWaySeconds |-> oneWaySeconds,
               oneWayMinutes |-> Times(oneWaySeconds, "1 / 60"),
               twoWayMinutes |-> Times(oneWaySeconds, "2 / 60") ]

\* bodies.find((b) => b.name === 'earth') ?? null
RECURSIVE FindEarth(_, _)
FindEarth(bodies, i) ==
  IF i > Len(bodies) THEN Null
  ELSE IF bodies[i].name = "earth" THEN bodies[i]
  ELSE FindEarth(bodies, i + 1)

\* earth?.x_au and the like: undefined without earth or without the field
Optional(earth, f) ==
  IF earth = Null \/ ~Has(earth, f) THEN Undef ELSE earth[f]

\* The map callback of GET /api/voyagers once the probe's vector is there:
\* the distances and the light time of the result (positions, velocities and
\* angles left out)
Enrich(name, vec, bodies) ==
  LET earth == FindEarth(bodies, 1)
      distAu == magnitude(vec.x_au, vec.y_au, vec.z_au)
      distEarthAu ==
        deltaMagnitude(vec.x_au, vec.y_au, vec.z_au, Optional(earth, "x_au"),
                       Optional(earth, "y_au"), Optional(earth, "z_au"))
      distanceKm == IF Truthy(distAu) THEN Times(distAu, "AU_TO_KM") ELSE JsNull
      distanceMiles ==
        IF Truthy(distanceKm) THEN Times(distanceKm, "KM_TO_MILES") ELSE JsNull
      distanceEarthKm ==
        IF Truthy(distEarthAu) THEN Times(distEarthAu, "AU_TO_KM") ELSE JsNull
      distanceEarthMiles ==
        IF Truthy(distanceEarthKm) THEN Times(distanceEarthKm, "KM_TO_MILES")
        ELSE JsNull
  IN  [ name |-> name,
        positionAu |-> [ x |-> vec.x_au, y |-> vec.y_au, z |-> vec.z_au ],
        distanceFromSun |->
          [ au |-> distAu, km |-> distanceKm, miles |-> distanceMiles ],
        distanceFromEarth |->
          [ au |-> distEarthAu, km |-> distanceEarthKm,
            miles |-> distanceEarthMiles ],
        lightTime |-> computeLightTime(distanceEarthKm) ]

\* The vectors fetchPlanetStateVector may return for a probe, and the earth
\* entry of the planets snapshot: absent, or with some of its coordinates
ProbeVectors ==
  { [ x_au |-> x, y_au |-> y, z_au |-> Num(0) ] :
      x \in { Num(0), Num(1), Num(MaxDelta), NaN }, y \in { Num(0), Num(1) } }
EarthEntries ==
  { [ f \in { "name" } \cup { g \in { "x_au", "y_au", "z_au" } : e[g] # Undef }
        |-> IF f = "name" THEN "earth" ELSE e[f] ] :
      e \in [ x_au : { Undef, Num(0), Num(1) }, y_au : { Undef, Num(0) },
              z_au : { Undef, Num(0) } ] }
SnapshotBodies ==
  { << [ name |-> "mercury", x_au |-> Num(0), y_au |-> Num(0),
         z_au |-> Num(0) ] >> }
    \cup { << earth >> : earth \in EarthEntries }

\* GET /api/voyagers after getSnapshot returned the cached planets snapshot
\* and one probe's fetch returned
InitProbes ==
  /\ \E bodies \in SnapshotBodies :
       memoryCache = MakeRecord([ timestamp |-> 0, metadata |-> [ source |-> "NASA-JPL-Horizons" ],
                                  bodies |-> bodies ], 0)
  /\ horizons \in { [ response |-> Null,
                      result |-> [ pc |-> "returned", value |-> vec,
                                   log |-> << "horizons_fetch" >> ] ] :
                     vec \in ProbeVectors }
  /\ metrics = << >>
  /\ unhandled = {}
  /\ clock = 0
  /\ providerUp = TRUE
  /\ redis = "none"
  /\ redisStore = Null
  /\ redisQueue = << >>
  /\ memoryOwner = 0
  /\ inflightPromise = NoHandle
  /\ refreshes = [ k \in RefreshIds |-> UnusedRefresh ]
  /\ nRefresh = 0
  /\ providerCalls = 0
  /\ callers = [ c \in Callers |-> IdleCaller ]
  /\ out = NoOut
  /\ served = -1
  /\ callsLeft = 0

\* The handler answers client c: res.json with the enriched probe i
ProbeEnriched(c, i) ==
  /\ out = NoOut
  /\ out' = [ NoOut EXCEPT ![c] =
                [ status |-> 200,
                  route |-> "voyagers",
                  requestId |-> RequestId(c),
                  voyagers |-> << Enrich(VOYAGERS[i], horizons.result.value,
                                         memoryCache.payload.bodies) >> ] ]
  /\ UNCHANGED << clock, providerUp, redis, redisStore, redisQueue, memoryCache,
                  memoryOwner, inflightPromise, refreshes, nRefresh,
                  providerCalls, callers, served, callsLeft, horizons,
                  metrics, unhandled >>

NextProbes == \E c \in Callers, i \in 1 .. Len(VOYAGERS) : ProbeEnriched(c, i)

SpecProbes == InitProbes /\ [][NextProbes]_vars

\* The earth entry of the snapshot the handler read, with all its coordinates
EarthComplete ==
  \E i \in 1 .. Len(memoryCache.payload.bodies) :
    /\ memoryCache.payload.bodies[i].name = "earth"
    /\ \A f \in { "x_au", "y_au", "z_au" } : Has(memoryCache.payload.bodies[i], f)

\* C31: in every voyagers response (always 200 here), distanceFromEarth.au is
\* the magnitude of probe position minus Earth position (99 for a probe at
\* (100,0,0) and Earth at (1,0,0)); without Earth or one of its coordinates,
\* distanceFromEarth and lightTime are all null; and the km and miles values
\* are null iff the au value is null, a distance of exactly 0 included.
C31_DistanceFromEarth ==
  \A c \in Callers :
    out[c] # Null =>
      LET probe == out[c].voyagers[1]
          d == probe.distanceFromEarth
      IN  /\ out[c].status = 200
          /\ ~EarthComplete =>
                /\ d = [ au |-> JsNull, km |-> JsNull, miles |-> JsNull ]
                /\ \A f \in DOMAIN probe.lightTime : probe.lightTime[f] = JsNull
          /\ (horizons.result.value.x_au = Num(MaxDelta)
                /\ horizons.result.value.y_au = Num(0)
                /\ memoryCache.payload.bodies[1] =
                     [ name |-> "earth", x_au |-> Num(1), y_au |-> Num(0),
                       z_au |-> Num(0) ])
               => d.au = Num(MaxDelta - 1)
          /\ (d.km = JsNull) <=> (d.au = JsNull)
          /\ (d.miles = JsNull) <=> (d.au = JsNull)

\* --- A process connected to a store whose key holds an unusable value ---
\* Text that is no JSON, or JSON of another schema: an object without cachedAt
\* and payload, or with cachedAt alone
UnusableValues == { InvalidJson, [ schema |-> "other" ], [ cachedAt |-> 0 ] }

InitUnusable ==
  /\ clock = 0
  /\ providerUp = TRUE
  /\ redis = "ready"
  /\ redisStore \in { [ rec |-> value, expireAt |-> MaxTime + 1 ] :
                       value \in UnusableValues }
  /\ redisQueue = << >>
  /\ memoryCache \in { Null, PeerRecord }
  /\ memoryOwner = 0
  /\ inflightPromise = NoHandle
  /\ refreshes = [ k \in RefreshIds |-> UnusedRefresh ]
  /\ nRefresh = 0
  /\ providerCalls = 0
  /\ callers = [ c \in Callers |-> IdleCaller ]
  /\ out = NoOut
  /\ served = -1
  /\ callsLeft = MaxCalls
  /\ horizons = Null
  /\ metrics = << >>
  /\ unhandled = {}

SpecUnusable == InitUnusable /\ [][NextStale]_vars

\* C32: a stored value that cannot be read or has another schema (no JSON, or
\* JSON lacking cachedAt or payload) counts as no record: no getSnapshot call
\* fails on it, and it never becomes the in-process record.
C32_UnusableValueIsNoRecord ==
  /\ \A c \in Callers : Rejected(c) => out[c].cause # TypeError
  /\ memoryCache # Null => Has(memoryCache, "cachedAt") /\ Has(memoryCache, "payload")


\* ------------------------------------------------------------------- C33
\* The calls of the current step on one metric
Calls(metric) == SelectSeq(metrics, LAMBDA e : e.metric = metric)

\* The calls of the current step that count a hit in `state`
HitCalls(state) ==
  SelectSeq(Calls("horizons_cache_hits_total"), LAMBDA e : e.label = state)

\* The responses of the current step that carry a result in `cacheState`
Results(cacheState) ==
  { c \in Callers : Succeeded(c) /\ out[c].cacheState = cacheState }

HitsTrackResults ==
  /\ Len(HitCalls("fresh")) = Cardinality(Results("HIT"))
  /\ Len(HitCalls("stale")) = Cardinality(Results("STALE"))
  /\ Len(Calls("horizons_cache_hits_total"))
       = Len(HitCalls("fresh")) + Len(HitCalls("stale"))
  /\ Len(Calls("horizons_cache_age_ms"))
       = Len(Calls("horizons_cache_hits_total"))

\* Refresh k resolves in this step: refreshSnapshot returns its result
Resolves(k) ==
  /\ InProgress(k)
  /\ refreshes'[k].st = "settled"
  /\ refreshes[k].st = "writing" \/ memoryOwner' = k

MissesTrackRefreshes ==
  /\ Len(Calls("horizons_cache_misses_total")')
       = Cardinality({ k \in RefreshIds : Resolves(k) })
  /\ \A k \in RefreshIds :
       Resolves(k) =>
         Calls("horizons_cache_misses_total")'[1].label = refreshes[k].reason

\* C33: every step counts one cache hit with state fresh, and sets the age
\* gauge, per HIT result it returns, one with state stale per STALE result,
\* and none otherwise; it counts one cache miss, under the refresh's reason,
\* per refresh that resolves in it, whatever the number of callers awaiting
\* it, and none for a refresh that rejects.
C33_CountersTrackResponses ==
  [][HitsTrackResults' /\ MissesTrackRefreshes]_vars


\* ------------------------------------------------------------------- C39
\* The fan-out of refresh k completes in this step: buildPlanetSnapshot has
\* its results and measures the duration
FanOutCompletes(k) ==
  /\ refreshes[k].st = "fetching"
  /\ \/ refreshes'[k].st = "writing"
     \/ refreshes'[k].st = "settled" /\ memoryOwner' = k

\* C39: a refresh that succeeds adds exactly one observation to the histogram
\* horizons_fetch_duration_ms, the duration of its fan-out, and a refresh that
\* fails adds none: a step observes once per fan-out completing in it and
\* at no other point of a refresh.
C39_OneObservationPerRefresh ==
  [][Len(Calls("horizons_fetch_duration_ms")')
       = Cardinality({ k \in RefreshIds : FanOutCompletes(k) })]_vars


\* ------------------------------------------------------------------- C34
\* The records held in the two tiers
Stored ==
  (IF memoryCache # Null THEN { memoryCache } ELSE {})
    \cup (IF redisStore # Null THEN { redisStore.rec } ELSE {})

Dated(record) ==
  /\ record.expiresAt = record.cachedAt + CACHE_TTL_MS
  /\ record.staleUntil = record.expiresAt + STALE_WHILE_REVALIDATE_MS

\* C34: every record held in either tier has expiresAt = cachedAt + TTL and
\* staleUntil = expiresAt + STALE_WINDOW, and a stored record changes only by
\* being replaced as a whole: the object a refresh stored in the in-process
\* cache is the same, field for field, for as long as it is the one held.
C34_StoredRecordsDatedAndWhole ==
  [][ /\ \A record \in Stored' : Dated(record)
      /\ \A k \in RefreshIds :
           (memoryOwner = k /\ memoryOwner' = k) => memoryCache' = memoryCache
    ]_vars


\* ------------------------------------------------------------------- C35
\* C35: the inflight handle is never cleared while the refresh it refers to
\* is running, and no caller's cleanup clears the handle of another refresh:
\* in every state, a refresh in progress is the one the handle refers to.
C35_HandleHoldsRunningRefresh ==
  \A k \in RefreshIds : InProgress(k) => inflightPromise = k


\* ------------------------------------------------------------------- C36
\* Background refresh k rejects in this step with no caller awaiting its handle
FailsUnawaited(k) ==
  /\ Background(k)
  /\ refreshes[k].st = "fetching"
  /\ refreshes'[k].st \in { "rejected", "settled" }
  /\ memoryOwner' # k
  /\ \A c \in Callers : ~(callers[c].pc = "await" /\ callers[c].awaiting = k)

\* C36: a stale-revalidate or pre-warm refresh that fails while no caller
\* awaits its handle is contained: its rejection is handled (nothing escapes as
\* an unhandled rejection), the stored records are unchanged, and the handle
\* is cleared.
C36_BackgroundFailureContained ==
  [][ \A k \in RefreshIds :
        FailsUnawaited(k) =>
          /\ k \notin unhandled'
          /\ memoryCache' = memoryCache
          /\ redisStore' = redisStore
          /\ inflightPromise' # k
    ]_vars


\* ------------------------------------------------------------------- C37
\* C37: the cachedAt of the record in the in-process cache never decreases:
\* no step (a refresh's writeCache, readCache's mirror) replaces the record
\* held by an older one, also after a failed write has left an older record
\* in the shared store.
C37_MemoryCachedAtMonotonic ==
  [][ (memoryCache # Null /\ memoryCache' # Null) =>
        memoryCache'.cachedAt >= memoryCache.cachedAt
    ]_vars


\* ------------------------------------------------------------------- C38
\* C38: no correlation id passes from one request to another: the
\* metadata.requestId of a getSnapshot result is the correlation id of the
\* call that returned it, or absent; a call made without a correlation id
\* never returns the id of the request whose refresh produced the record.
C38_NoCorrelationIdLeak ==
  \A c \in Callers :
    out[c] # Null =>
      out[c].payload.metadata.requestId \in { NoId, out[c].correlationId }


\* ------------------------------------------------------------------- C40
\* --- Revalidation of a peer's stale record, requests arriving one by one ---
\* A non-forced request arriving while no call and no refresh is under way
CallWhenQuiet(c) ==
  /\ \A k \in RefreshIds : ~InProgress(k)
  /\ \A d \in Callers : callers[d].pc = "idle"
  /\ Request(c, Undef, Undef)

NextRevalidate ==
  \/ \E c \in Callers : CallWhenQuiet(c)
  \/ \E c \in Callers : ReadDone(c)
  \/ \E k \in RefreshIds, i \in 1 .. NBodies : FetchDone(k, i)
  \/ \E k \in RefreshIds : WriteDone(k)
  \/ Tick

SpecRevalidate == InitStale /\ [][NextRevalidate]_vars

\* The provider answers every fetch and the store every command
FairRevalidate ==
  /\ SpecRevalidate
  /\ \A c \in Callers : WF_vars(ReadDone(c))
  /\ \A k \in RefreshIds : WF_vars(WriteDone(k))
  /\ \A k \in RefreshIds, i \in 1 .. NBodies : WF_vars(FetchDone(k, i))

ServedStale == \E c \in Callers : Succeeded(c) /\ out[c].cacheState = "STALE"

Revalidated == OwnRecord /\ memoryCache.cachedAt > PeerRecord.cachedAt

\* Once a STALE response was sent, a refresh replaces the record held by one
\* with a newer cachedAt
StaleLeadsToRevalidated == ServedStale ~> Revalidated

\* A call of client c, made after the refresh that stored memoryCache
\* completed and within the TTL of its record, is answered in this step
AnsweredAfterRevalidation(c) ==
  /\ Revalidated
  /\ callers[c].pc = "read"
  /\ callers[c].now - memoryCache.cachedAt < CACHE_TTL_MS
  /\ out'[c] # Null

\* C40: revalidation makes progress: after a STALE response, with the
\* provider answering, a refresh stores a record with a newer cachedAt, and a
\* non-forced request made after that refresh completed, within the TTL of its
\* record, returns HIT with the new record.
C40_HitAfterRevalidation ==
  [][ \A c \in Callers :
        AnsweredAfterRevalidation(c) =>
          /\ out'[c].status = 200
          /\ out'[c].cacheState = "HIT"
          /\ out'[c].cachedAt = memoryCache.cachedAt
    ]_vars

====
